---- MODULE Spec2Model ----
(***************************************************************************)
(* Session restore / synchronisation engine of the chat persistence layer. *)
(*                                                                         *)
(*   Snapshot Reconciler   the body of the .then handler of useChatHistory *)
(*                         that cuts the stored log around a snapshot      *)
(*   Restore Coordinator   the useEffect of useChatHistory: the restore    *)
(*                         lock, the local query, the remote fallback,     *)
(*                         the write-back and the grace timer              *)
(*   ProjectRestoreService the remote load used by the fallback            *)
(***************************************************************************)
EXTENDS Integers, Sequences, FiniteSets, TLC

----------------------------------------------------------------------------
(* Bounds                                                                   *)

\* Message identifiers of a stored log are 1..MaxId; 0 stands for an
\* identifier no message has ('' of an absent snapshot, null of an absent
\* rewindTo parameter).
MaxId == 4
\* Longest stored log.
MaxLogLen == 4
\* Number of activations (runs of the effect) in one behaviour of Spec.
MaxActivations == 3
\* Requests one sync agent may have on their way at once.
MaxInFlight == 2
\* Calls, edits and failures (storeMessageHistory, forceSave, syncNow, stop,
\* a change of the in-memory state, an error answer, a lost request, a
\* throwing getter) in one behaviour of SpecSync.
MaxSyncOps == 3
\* storeMessageHistory calls and failures in one behaviour of SpecHistory.
HistoryOps == 2
\* Number of activations in one behaviour of SpecStores.
StoreActivations == 1
\* Projects the Remote Project Store may insert in one behaviour of
\* SpecServer.
MaxProjects == 2
\* Route handlers that may be suspended before their write at once.
MaxPending == 2
\* Requests in one behaviour of SpecServer.
MaxServerOps == 3
MaxCalls == 2
MaxEntries == 3
MaxAutoEntries == 1
CallOps == 3

MsgIds == 1..MaxId
NoMsgId == 0
\* generateId() answers a fresh random identifier
GenIds == {MaxId + 1, MaxId + 2}

\* Paths of a snapshot's FileMap and the two kinds of Dirent
Paths == {"package.json", "dir"}
DirentTypes == {"file", "folder"}

----------------------------------------------------------------------------
(* Messages                                                                 *)

Msg(id, role, content, annotations, files) ==
  [id |-> id, role |-> role, content |-> content,
   annotations |-> annotations, files |-> files]

\* A message of a stored log: users and assistants alternate.
ChatMsg(id, pos) ==
  Msg(id, IF pos % 2 = 1 THEN "user" ELSE "assistant", "chat", {}, {})

Range(s) == {s[i] : i \in DOMAIN s}

\* every sequence of n distinct elements of S
RECURSIVE InjSeqs(_, _)
InjSeqs(S, n) ==
  IF n = 0 THEN {<<>>}
  ELSE UNION {{Append(s, x) : x \in S \ Range(s)} : s \in InjSeqs(S, n - 1)}

\* The logs the Local History Store can hold for a session with messages:
\* 1..MaxLogLen messages with distinct identifiers.
Logs ==
  UNION {{[i \in 1..n |-> ChatMsg(ids[i], i)] : ids \in InjSeqs(MsgIds, n)} :
         n \in 1..MaxLogLen}

\* FileMap: path -> Dirent, here the Dirent's type
FileMaps == UNION {[D -> DirentTypes] : D \in SUBSET Paths}
EmptyFileMap == [p \in {} |-> "file"]
\* a project holding its manifest only
ManifestOnly == [p \in {"package.json"} |-> "file"]

\* getSnapshot answers undefined (present = FALSE) or the stored Snapshot;
\* takeSnapshot stores the identifier of a message as chatIndex.
NoSnapshot ==
  [present |-> FALSE, chatIndex |-> NoMsgId, files |-> EmptyFileMap,
   summary |-> FALSE]
Snapshots ==
  {NoSnapshot} \cup
  [present : {TRUE}, chatIndex : MsgIds, files : FileMaps, summary : BOOLEAN]

\* searchParams.get('rewindTo'): null (NoMsgId) or a message identifier
RewindIds == {NoMsgId} \cup MsgIds

----------------------------------------------------------------------------
(* Snapshot Reconciler                                                      *)

\* Array.prototype.findIndex on the identifiers: 0-based, -1 when absent
FindIndex(messages, id) ==
  IF \E i \in DOMAIN messages : messages[i].id = id
  THEN (CHOOSE i \in DOMAIN messages :
          /\ messages[i].id = id
          /\ \A j \in DOMAIN messages : messages[j].id = id => i <= j) - 1
  ELSE -1

\* Array.prototype.slice(start, end), 0-based and end-exclusive
Slice(s, start, end) ==
  LET rel(k) == IF k < 0 THEN (IF Len(s) + k < 0 THEN 0 ELSE Len(s) + k)
                ELSE (IF k > Len(s) THEN Len(s) ELSE k)
      from == rel(start)
      to == rel(end)
  IN IF to > from THEN [i \in 1..(to - from) |-> s[from + i]] ELSE <<>>

\* EndingIdx with the index of the rewind target itself as the end
EndingIdxAtTarget(messages, rewindId) ==
  IF rewindId # NoMsgId THEN FindIndex(messages, rewindId)
  ELSE Len(messages)

EndingIdx(messages, rewindId) ==
  IF rewindId # NoMsgId THEN FindIndex(messages, rewindId) + 1
  ELSE Len(messages)

SnapshotIndex(messages, snapshot) == FindIndex(messages, snapshot.chatIndex)

\* StartingIdx without the rewind-to-snapshot override
StartingIdxNoOverride(messages, snapshot, rewindId) ==
  LET snapshotIndex == FindIndex(messages, snapshot.chatIndex)
  IN IF snapshotIndex >= 0
        /\ snapshotIndex < (IF rewindId # NoMsgId
                            THEN FindIndex(messages, rewindId) + 1
                            ELSE Len(messages))
     THEN snapshotIndex ELSE -1

StartingIdx(messages, snapshot, rewindId) ==
  LET endingIdx == EndingIdx(messages, rewindId)
      snapshotIndex == SnapshotIndex(messages, snapshot)
      applied == IF snapshotIndex >= 0 /\ snapshotIndex < endingIdx
                 THEN snapshotIndex ELSE -1
  IN IF snapshotIndex > 0 /\ messages[snapshotIndex + 1].id = rewindId
     THEN -1 ELSE applied

\* ArchivedMessages that leaves the snapshot's message out
ArchivedMessagesExclusive(messages, snapshot, rewindId) ==
  LET startingIdx == StartingIdx(messages, snapshot, rewindId)
  IN IF startingIdx >= 0 THEN Slice(messages, 0, startingIdx) ELSE <<>>

ArchivedMessages(messages, snapshot, rewindId) ==
  LET startingIdx == StartingIdx(messages, snapshot, rewindId)
  IN IF startingIdx >= 0 THEN Slice(messages, 0, startingIdx + 1) ELSE <<>>

\* EmbeddedFiles that embeds nothing
EmbeddedFilesNone(snapshot) == {}

\* the file entries of the snapshot embedded as boltAction elements
EmbeddedFiles(snapshot) ==
  {p \in DOMAIN snapshot.files : snapshot.files[p] = "file"}

RestoreRequestMsg(genId) ==
  Msg(genId, "user", "restore-request", {"no-store", "hidden"}, {})

RestoreArtifactMsg(messages, snapshot) ==
  Msg(messages[SnapshotIndex(messages, snapshot) + 1].id, "assistant",
      "restore-artifact",
      {"no-store"} \cup (IF snapshot.summary THEN {"chatSummary"} ELSE {}),
      EmbeddedFiles(snapshot))

\* FilteredMessages that synthesizes the two messages for every applied
\* snapshot, the one on the first message included
FilteredMessagesFromFirst(messages, snapshot, rewindId, genId) ==
  LET startingIdx == StartingIdx(messages, snapshot, rewindId)
      tail == Slice(messages, startingIdx + 1, EndingIdx(messages, rewindId))
  IN IF startingIdx >= 0
     THEN <<RestoreRequestMsg(genId), RestoreArtifactMsg(messages, snapshot)>>
          \o tail
     ELSE tail

FilteredMessages(messages, snapshot, rewindId, genId) ==
  LET startingIdx == StartingIdx(messages, snapshot, rewindId)
      tail == Slice(messages, startingIdx + 1, EndingIdx(messages, rewindId))
  IN IF startingIdx > 0
     THEN <<RestoreRequestMsg(genId), RestoreArtifactMsg(messages, snapshot)>>
          \o tail
     ELSE tail

----------------------------------------------------------------------------
(* State                                                                    *)

VARIABLES
  db,                  \* "open" | "failed" (openDatabase gave nothing) | "disabled"
  webcontainerOk,      \* whether the webcontainer promise resolves
  localDb,             \* Local History Store: chat id -> record
  snapshots,           \* Local History Store: chat id -> Snapshot
  remote,              \* Remote Project Store: what /load resolves a key to
  routes,              \* the <<id, rewindTo>> pairs a navigation can carry
  mixedId,             \* useLoaderData().id of the mounted component
  rewindTo,            \* searchParams.get('rewindTo')
  restoreInProgress,   \* useRef: the restore lock
  autoStartInProgress, \* useRef: the auto-start lock
  ready,               \* useState
  archivedMessages,    \* useState
  initialMessages,     \* useState
  urlId,               \* useState
  chatId,              \* atom
  restores,            \* the pending promise chains of the effect, in order
  lastDone,            \* the chain that settled last, as it ended
  lastEffect,          \* what the last run of the effect did
  activeRestores,      \* ProjectRestoreService.activeRestores (its keys)
  timers,              \* pending setTimeout callbacks, in scheduling order
  toasts,              \* kinds of notification shown so far
  activationsLeft,     \* activations the behaviour may still take
  reconcileIn,         \* inputs of the reconciler under SpecReconcile
  reconcileOut,        \* its outputs
  reconcileAgain,      \* the outputs of a second run on the same inputs
  agent,               \* the two sync services: projectId, syncInterval, ...
  intervals,           \* the setInterval handles still running, per agent
  mem,                 \* workbenchStore: what each agent's getter returns
  net,                 \* requests of the agents on their way
  remoteState,         \* Remote Project Store: per agent and project, what
                       \* was upserted last and by which kind of request
  lastSync,            \* the most recent run of syncFiles / syncState
  lastCall,            \* the sync call of an agent that ran last, and its verdict
  msgSync,             \* the pending syncMessagesToSupabase call
  posted,              \* every message a POST to /messages has carried
  started,             \* calls of start per agent and project
  opsLeft,             \* calls, edits and failures the behaviour may still
                       \* take
  driven,              \* the agent whose calls, edits and requests the
                       \* behaviour follows
  projects,            \* Remote Project Store: the rows of projects
  chatRows,            \* the rows of chat_messages
  fileRows,            \* the rows of project_files
  wbRows,              \* the rows of workbench_states
  handlers,            \* route handlers suspended before their write
  lastResp,            \* the response the store gave last
  delivered,           \* the writes the store has served
  nextPid,             \* the identifier the next inserted project gets
  clientSync,          \* syncMessagesToSupabase of the client of caller A
  srvOps,              \* requests the behaviour may still take
  calls,               \* storeMessageHistory calls suspended at an await,
                       \* in the order their requests were issued
  syncedAs,            \* the keys syncMessagesToSupabase was called with
  callOps,             \* storeMessageHistory calls the behaviour may still
                       \* take
  box,                 \* a sandbox populator: its FileMap and its position
  sandbox,             \* the directories and files of the sandbox
  boxLog,              \* the calls of fs.mkdir and fs.writeFile, in order
  auto,                \* the auto-start routine: its commands and position
  procs                \* the setup and the start process of the sandbox

env == <<db, webcontainerOk, snapshots, remote, routes>>

recVars == <<reconcileIn, reconcileOut, reconcileAgain>>

syncVars ==
  <<agent, intervals, mem, net, remoteState, lastSync, lastCall, msgSync,
    posted, started, opsLeft, driven>>

srvVars ==
  <<projects, chatRows, fileRows, wbRows, handlers, lastResp, delivered,
    nextPid, clientSync, srvOps>>

callVars == <<calls, syncedAs, callOps>>

boxVars == <<box, sandbox, boxLog>>

autoVars == <<auto, procs>>

extraVars == <<callVars, boxVars, autoVars>>

moreVars == <<srvVars, extraVars>>

restVars == <<recVars, syncVars, moreVars>>

coordVars ==
  <<env, localDb, mixedId, rewindTo, restoreInProgress, autoStartInProgress,
    ready, archivedMessages, initialMessages, urlId, chatId, restores,
    lastDone, lastEffect, activeRestores, timers, toasts, activationsLeft>>

vars == <<coordVars, restVars>>

\* Chat identifiers a route can carry; 0 is the route without identifier.
ChatIds == {1, 2}
NoId == 0

----------------------------------------------------------------------------
(* Local History Store (db.ts)                                              *)

NoRecord == [exists |-> FALSE, id |-> NoId, urlId |-> NoId, messages |-> <<>>]
Record(id, u, messages) ==
  [exists |-> TRUE, id |-> id, urlId |-> u, messages |-> messages]

GetMessagesById(store, id) ==
  IF id \in DOMAIN store THEN store[id] ELSE NoRecord

GetMessagesByUrlId(store, u) ==
  IF \E k \in DOMAIN store : store[k].exists /\ store[k].urlId = u
  THEN store[CHOOSE k \in DOMAIN store : store[k].exists /\ store[k].urlId = u]
  ELSE NoRecord

\* getMessages: by id, else by url-identifier
GetMessages(store, id) ==
  IF GetMessagesById(store, id).exists THEN GetMessagesById(store, id)
  ELSE GetMessagesByUrlId(store, id)

\* the urlId index is unique: a put that would give two records the same
\* url-identifier is rejected
SetMessagesFails(store, id, u) ==
  u # NoId /\ \E k \in DOMAIN store : k # id /\ store[k].exists /\ store[k].urlId = u

SetMessages(store, id, messages, u) ==
  [store EXCEPT ![id] = Record(id, u, messages)]

----------------------------------------------------------------------------
(* Remote Project Store as seen through GET /api/projects/:id/load          *)

NoProject == [exists |-> FALSE, url_id |-> NoId, messages |-> <<>>, hasFiles |-> FALSE]
Project(u, messages, hasFiles) ==
  [exists |-> TRUE, url_id |-> u, messages |-> messages, hasFiles |-> hasFiles]

\* the answers of the fetch in loadProjectFromSupabase
LoadAnswers(p) ==
  {IF remote[p].exists THEN "ok" ELSE "notfound", "httperror", "netfail"}

\* loadProjectFromSupabase: the ProjectData, or null on 404, on any other
\* non-OK status and on an exception
LoadProjectFromSupabase(answer) == answer = "ok"

\* _doRestoreProject: null when the load gave null or when restoreFiles
\* threw (the webcontainer promise rejected while files had to be written)
DoRestoreProject(p, answer) ==
  /\ LoadProjectFromSupabase(answer)
  /\ (remote[p].hasFiles => webcontainerOk)

----------------------------------------------------------------------------
(* Restore Coordinator: the effect of useChatHistory                        *)

\* One promise chain started by the effect. id and rewindId are the values
\* the closure captured; answer, existed and writeBack record what the chain
\* met, for the properties below.
NewRestore(id, rw) ==
  [id |-> id, rewindId |-> rw, phase |-> "query", path |-> "none",
   startedLoad |-> FALSE, answer |-> "none", data |-> FALSE,
   outcome |-> "pending", existed |-> "none", writeBack |-> "none"]

NoRestore == [NewRestore(NoId, NoMsgId) EXCEPT !.phase = "none"]

RemoveAt(q, i) == [j \in 1..(Len(q) - 1) |-> IF j < i THEN q[j] ELSE q[j + 1]]

\* chain t has run to its end as `final`
Settle(t, final) ==
  /\ restores' = RemoveAt(restores, t)
  /\ lastDone' = [final EXCEPT !.phase = "done"]

\* the effect without its lock check
LockHeldNever == FALSE

\* the lock check at the head of the effect
LockHeld == restoreInProgress

\* .finally scheduling nothing
ScheduleNothing(q) == q

\* .finally: the 5 s timer that resets the lock
ScheduleGrace(q) == Append(q, "grace")

\* the auto-start routine scheduled by two setTimeout calls
ScheduleAutoStartTwice(q) == Append(Append(q, "auto"), "auto")

\* setTimeout(..., 1500) running the auto-start routine
ScheduleAutoStart(q) == Append(q, "auto")

\* The effect runs: mount, or a change of mixedId / searchParams / navigate.
Activate(id, rw) ==
  /\ <<id, rw>> \in routes
  /\ activationsLeft > 0
  /\ activationsLeft' = activationsLeft - 1
  /\ mixedId' = id
  /\ rewindTo' = rw
  /\ UNCHANGED <<env, localDb, archivedMessages, initialMessages, urlId, chatId,
                 lastDone, activeRestores, timers, restVars>>
  /\ IF LockHeld
     THEN /\ lastEffect' = "dropped"
          /\ UNCHANGED <<restoreInProgress, autoStartInProgress, ready,
                         restores, toasts>>
     ELSE /\ autoStartInProgress' = FALSE
          /\ IF db # "open"
             THEN /\ ready' = TRUE
                  /\ toasts' = IF db = "failed"
                               THEN toasts \cup {"persistence-unavailable"}
                               ELSE toasts
                  /\ lastEffect' = "no-db"
                  /\ UNCHANGED <<restoreInProgress, restores>>
             ELSE IF id # NoId
             THEN /\ restoreInProgress' = TRUE
                  /\ restores' = Append(restores, NewRestore(id, rw))
                  /\ lastEffect' = "restore"
                  /\ UNCHANGED <<ready, toasts>>
             ELSE /\ ready' = TRUE
                  /\ lastEffect' = "new-chat"
                  /\ UNCHANGED <<restoreInProgress, restores, toasts>>

\* Promise.all([getMessages, getSnapshot]) rejects: .catch, then .finally
LocalQueryReject(t) ==
  /\ t \in DOMAIN restores
  /\ restores[t].phase = "query"
  /\ toasts' = toasts \cup {"load-failed"}
  /\ restoreInProgress' = FALSE
  /\ timers' = ScheduleGrace(timers)
  /\ Settle(t, [restores[t] EXCEPT !.path = "rejected", !.outcome = "rejected"])
  /\ UNCHANGED <<env, localDb, mixedId, rewindTo, autoStartInProgress, ready,
                 archivedMessages, initialMessages, urlId, chatId, lastEffect,
                 activeRestores, activationsLeft, restVars>>

\* restoreProject(p) that starts a load on every call
CallRestoreProjectAlways(t) ==
  LET p == restores[t].id
  IN /\ activeRestores' = activeRestores \cup {p}
     /\ restores' = [restores EXCEPT
                       ![t].phase = "remote", ![t].path = "remote",
                       ![t].startedLoad = TRUE]

\* restoreProject(p) called by chain t: joins the pending restore of p, or
\* starts one
CallRestoreProject(t) ==
  LET p == restores[t].id
  IN /\ activeRestores' = activeRestores \cup {p}
     /\ restores' = [restores EXCEPT
                       ![t].phase = "remote", ![t].path = "remote",
                       ![t].startedLoad = p \notin activeRestores]

\* Promise.all resolves: the .then handler up to its first await on the
\* sandbox (local path) or on restoreProject (fallback)
LocalQueryResolve(t, genId) ==
  /\ t \in DOMAIN restores
  /\ restores[t].phase = "query"
  /\ LET id == restores[t].id
         rw == restores[t].rewindId
         storedMessages == GetMessages(localDb, id)
         snapshot == snapshots[id]
     IN IF storedMessages.exists /\ Len(storedMessages.messages) > 0
        THEN /\ archivedMessages' =
                  ArchivedMessages(storedMessages.messages, snapshot, rw)
             /\ initialMessages' =
                  FilteredMessages(storedMessages.messages, snapshot, rw, genId)
             /\ urlId' = storedMessages.urlId
             /\ chatId' = storedMessages.id
             /\ UNCHANGED <<activeRestores, toasts>>
             /\ IF snapshot.present /\ DOMAIN snapshot.files # {}
                THEN /\ restores' = [restores EXCEPT ![t].phase = "populate",
                                                     ![t].path = "local"]
                     /\ UNCHANGED <<ready, timers, lastDone>>
                ELSE /\ ready' = TRUE
                     /\ timers' = ScheduleGrace(timers)
                     /\ Settle(t, [restores[t] EXCEPT !.path = "local",
                                                      !.outcome = "restored"])
        ELSE /\ CallRestoreProject(t)
             /\ UNCHANGED <<archivedMessages, initialMessages, urlId, chatId,
                            ready, timers, toasts, lastDone>>
  /\ UNCHANGED <<env, localDb, mixedId, rewindTo, restoreInProgress,
                 autoStartInProgress, lastEffect, activationsLeft, restVars>>

\* await restoreSnapshot(storedMessages.id, snapshot) settles: it rejects
\* only when the webcontainer promise does. Then setReady and .finally.
PopulateDone(t) ==
  /\ t \in DOMAIN restores
  /\ restores[t].phase = "populate"
  /\ IF webcontainerOk
     THEN /\ restoreInProgress' = restoreInProgress
          /\ autoStartInProgress' = TRUE
          /\ IF ~autoStartInProgress
             THEN /\ toasts' = toasts \cup {"starting"}
                  /\ timers' = ScheduleGrace(ScheduleAutoStart(timers))
             ELSE /\ toasts' = toasts
                  /\ timers' = ScheduleGrace(timers)
          /\ Settle(t, [restores[t] EXCEPT !.outcome = "restored"])
     ELSE /\ restoreInProgress' = FALSE
          /\ timers' = ScheduleGrace(timers)
          /\ Settle(t, [restores[t] EXCEPT !.outcome = "sandbox-failed"])
          /\ UNCHANGED <<autoStartInProgress, toasts>>
  /\ ready' = TRUE
  /\ UNCHANGED <<env, localDb, mixedId, rewindTo, archivedMessages,
                 initialMessages, urlId, chatId, lastEffect, activeRestores,
                 activationsLeft, restVars>>

\* The fetch of loadProjectFromSupabase answers and _doRestoreProject runs
\* to its return; the pending restore of p settles for every chain awaiting
\* it and .finally removes the tracking entry.
RemoteLoadReturn(p, answer) ==
  /\ p \in activeRestores
  /\ answer \in LoadAnswers(p)
  /\ activeRestores' = activeRestores \ {p}
  /\ timers' = IF DoRestoreProject(p, answer) THEN ScheduleAutoStart(timers)
               ELSE timers
  /\ restores' =
       [t \in DOMAIN restores |->
          IF restores[t].phase = "remote" /\ restores[t].id = p
          THEN [restores[t] EXCEPT !.phase = "adopt", !.answer = answer,
                                   !.data = DoRestoreProject(p, answer)]
          ELSE restores[t]]
  /\ UNCHANGED <<env, localDb, mixedId, rewindTo, restoreInProgress,
                 autoStartInProgress, ready, archivedMessages, initialMessages,
                 urlId, chatId, lastDone, lastEffect, toasts, activationsLeft,
                 restVars>>

\* the existence check without the lookup by url-identifier
ExistingChatByIdOnly(store, id, u) == GetMessagesById(store, id)

\* the record the write-back looks for: by id, else by url-identifier
ExistingChat(store, id, u) ==
  IF GetMessagesById(store, id).exists THEN GetMessagesById(store, id)
  ELSE IF u # NoId THEN GetMessagesByUrlId(store, u)
  ELSE NoRecord

\* "Only save if it doesn't exist yet"
ShouldSave(existingChat) ==
  ~existingChat.exists \/ Len(existingChat.messages) = 0

Existed(existingChat) ==
  IF ~existingChat.exists THEN "none"
  ELSE IF Len(existingChat.messages) = 0 THEN "empty" ELSE "full"

\* the fallback decides between adopting the remote data and going home
Adopts(data, messages) == data /\ Len(messages) > 0

\* The chain resumes after await restoreProject(mixedId): adoption and
\* write-back, or the redirect; then setReady and .finally.
RemoteContinue(t) ==
  /\ t \in DOMAIN restores
  /\ restores[t].phase = "adopt"
  /\ LET id == restores[t].id
         supabaseData == remote[id]
         existingChat == ExistingChat(localDb, id, supabaseData.url_id)
         seen == [restores[t] EXCEPT !.outcome = "restored",
                                     !.existed = Existed(existingChat)]
     IN IF Adopts(restores[t].data, supabaseData.messages)
        THEN /\ initialMessages' = supabaseData.messages
             /\ urlId' = supabaseData.url_id
             /\ IF ShouldSave(existingChat)
                THEN /\ chatId' = id
                     /\ IF SetMessagesFails(localDb, id, supabaseData.url_id)
                        THEN /\ localDb' = localDb
                             /\ Settle(t, [seen EXCEPT !.writeBack = "failed"])
                        ELSE /\ localDb' = SetMessages(localDb, id,
                                             supabaseData.messages,
                                             supabaseData.url_id)
                             /\ Settle(t, [seen EXCEPT !.writeBack = "written"])
                ELSE /\ chatId' = IF existingChat.id # id THEN existingChat.id
                                  ELSE id
                     /\ localDb' = localDb
                     /\ Settle(t, [seen EXCEPT !.writeBack = "skipped"])
        ELSE /\ Settle(t, [restores[t] EXCEPT !.outcome = "home"])
             /\ UNCHANGED <<initialMessages, urlId, chatId, localDb>>
  /\ ready' = TRUE
  /\ timers' = ScheduleGrace(timers)
  /\ UNCHANGED <<env, mixedId, rewindTo, restoreInProgress,
                 autoStartInProgress, archivedMessages, lastEffect,
                 activeRestores, toasts, activationsLeft, restVars>>

\* Timers run in deadline order: a 5 s timer runs after everything scheduled
\* before it, a 1.5 s timer after the 1.5 s timers scheduled before it.
CanFire(i) ==
  /\ i \in DOMAIN timers
  /\ IF timers[i] = "grace" THEN i = 1
     ELSE \A j \in 1..(i - 1) : timers[j] # "auto"

\* the callback of the 5 s timer
FireGraceTimer(i) ==
  /\ CanFire(i)
  /\ timers[i] = "grace"
  /\ timers' = RemoveAt(timers, i)
  /\ restoreInProgress' = FALSE
  /\ UNCHANGED <<env, localDb, mixedId, rewindTo, autoStartInProgress, ready,
                 archivedMessages, initialMessages, urlId, chatId, restores,
                 lastDone, lastEffect, activeRestores, toasts, activationsLeft,
                 restVars>>

\* the callback of the 1.5 s timer: autoStartApplication / autoStartProject
FireAutoStartTimer(i) ==
  /\ CanFire(i)
  /\ timers[i] = "auto"
  /\ timers' = RemoveAt(timers, i)
  /\ UNCHANGED <<env, localDb, mixedId, rewindTo, restoreInProgress,
                 autoStartInProgress, ready, archivedMessages, initialMessages,
                 urlId, chatId, restores, lastDone, lastEffect, activeRestores,
                 toasts, activationsLeft, restVars>>

----------------------------------------------------------------------------
(* Snapshot Reconciler on its own                                           *)

NoReconcileIn ==
  [messages |-> <<>>, snapshot |-> NoSnapshot, rewindId |-> NoMsgId]
NoReconcileOut ==
  [done |-> FALSE, archivedMessages |-> <<>>, initialMessages |-> <<>>]

\* the reconciling part of the .then handler, applied to reconcileIn
RunReconcile(genId) ==
  /\ ~reconcileOut.done
  /\ Len(reconcileIn.messages) > 0
  /\ reconcileOut' =
       [done |-> TRUE,
        archivedMessages |->
          ArchivedMessages(reconcileIn.messages, reconcileIn.snapshot,
                           reconcileIn.rewindId),
        initialMessages |->
          FilteredMessages(reconcileIn.messages, reconcileIn.snapshot,
                           reconcileIn.rewindId, genId)]
  /\ UNCHANGED <<moreVars, coordVars, reconcileIn, reconcileAgain, syncVars>>

\* a second run that finds no snapshot stored
RunReconcileAgainNoSnapshot(genId) ==
  /\ reconcileOut.done
  /\ ~reconcileAgain.done
  /\ reconcileAgain' =
       [done |-> TRUE,
        archivedMessages |->
          ArchivedMessages(reconcileIn.messages, NoSnapshot,
                           reconcileIn.rewindId),
        initialMessages |->
          FilteredMessages(reconcileIn.messages, NoSnapshot,
                           reconcileIn.rewindId, genId)]
  /\ UNCHANGED <<moreVars, coordVars, reconcileIn, reconcileOut, syncVars>>

\* the same handler run once more on the same stored log, snapshot and
\* rewind target (a second mount of the same route)
RunReconcileAgain(genId) ==
  /\ reconcileOut.done
  /\ ~reconcileAgain.done
  /\ reconcileAgain' =
       [done |-> TRUE,
        archivedMessages |->
          ArchivedMessages(reconcileIn.messages, reconcileIn.snapshot,
                           reconcileIn.rewindId),
        initialMessages |->
          FilteredMessages(reconcileIn.messages, reconcileIn.snapshot,
                           reconcileIn.rewindId, genId)]
  /\ UNCHANGED <<moreVars, coordVars, reconcileIn, reconcileOut, syncVars>>

----------------------------------------------------------------------------
(* Periodic Sync Agents: FileSyncService and WorkbenchSyncService           *)

Agents == {"files", "workbench"}

\* null of projectId / syncInterval, '' of lastSyncedFiles / lastSyncedState
NoProjectId == 0
NoTimer == 0
NeverSynced == <<>>

\* the url-identifier getUrlId derives from the first artifact
ArtifactUrlId == 3
\* project identifiers: ensureProject answers the project of the key
\* (urlId || chatId) it was given
ProjectIds == ChatIds \cup {ArtifactUrlId}
\* identifier of the message the user adds in the session
NewMsgId == MaxId + 3

\* what the getter handed to workbenchSyncService.start returns
WorkbenchState(selectedFile) ==
  [selectedFile |-> selectedFile, openFiles |-> <<>>, currentView |-> "code",
   showWorkbench |-> TRUE, terminalHistory |-> <<>>, previewUrls |-> <<>>]

\* the in-memory states of the workbench store an agent can read
MemStates(a) ==
  IF a = "files" THEN {EmptyFileMap, ManifestOnly}
  ELSE {WorkbenchState("none"), WorkbenchState("package.json")}

\* JSON.stringify of what the getter returned: never the empty string
Serialize(a, st) == <<"json", a, st>>

\* the body of the POST / of the beacon
Body(a, st) ==
  IF a = "files" THEN [files |-> st]
  ELSE [selected_file |-> st.selectedFile, open_files |-> st.openFiles,
        current_view |-> st.currentView, show_workbench |-> st.showWorkbench,
        terminal_history |-> st.terminalHistory, preview_urls |-> st.previewUrls]

AgentIdle ==
  [projectId |-> NoProjectId, syncInterval |-> NoTimer,
   lastSynced |-> NeverSynced, getter |-> FALSE]

\* a request on its way: fetch (awaited) or sendBeacon (never answered)
Request(a, p, kind, st) ==
  [agent |-> a, project |-> p, kind |-> kind, body |-> Body(a, st),
   json |-> Serialize(a, st), stage |-> "sent", latest |-> kind = "fetch"]

InFlight(q, a) == Cardinality({i \in DOMAIN q : q[i].agent = a})

\* the most recent run of syncFiles / syncState of an agent, for the
\* properties: what it serialized, whether it wrote, how its write ended,
\* whether no other fetch of the agent was pending when it ran, and whether
\* the in-memory state changed since
NoSync ==
  [invoked |-> FALSE, json |-> NeverSynced, wrote |-> FALSE,
   status |-> "none", alone |-> FALSE, dirty |-> FALSE]

\* the change detection that always finds a change
SameAsLastSyncedNever(ag, json) == FALSE

\* filesJson === this.lastSyncedFiles
SameAsLastSynced(ag, json) == json = ag.lastSynced

\* this.projectId && this.filesGetter
Bound(ag) == ag.projectId # NoProjectId /\ ag.getter

\* syncFiles / syncState up to its first await; getterOk tells whether the
\* getter returned
SyncVerdict(ag, a, st, getterOk) ==
  IF ~Bound(ag) THEN "unbound"
  ELSE IF ~getterOk THEN "failed"
  ELSE IF SameAsLastSynced(ag, Serialize(a, st)) THEN "unchanged"
  ELSE "sent"

\* older requests are no longer the ones of the most recent run
Retire(q, a) ==
  [i \in DOMAIN q |-> IF q[i].agent = a THEN [q[i] EXCEPT !.latest = FALSE]
                      ELSE q[i]]

SyncSend(q, ag, a, st, getterOk) ==
  IF SyncVerdict(ag, a, st, getterOk) = "sent"
  THEN Append(Retire(q, a), Request(a, ag.projectId, "fetch", st))
  ELSE Retire(q, a)

SyncRecord(q, ag, a, st, getterOk) ==
  LET verdict == SyncVerdict(ag, a, st, getterOk)
  IN [invoked |-> TRUE,
      json |-> IF verdict \in {"unchanged", "sent"} THEN Serialize(a, st)
               ELSE NeverSynced,
      wrote |-> verdict = "sent",
      status |-> IF verdict = "sent" THEN "pending" ELSE "none",
      alone |-> ~\E i \in DOMAIN q : q[i].agent = a /\ q[i].kind = "fetch",
      dirty |-> FALSE]

\* start without the initial sync: binds the project and the getter and
\* creates the interval under handle h
StartBind(ag, p, h) ==
  [ag EXCEPT !.projectId = p, !.getter = TRUE, !.syncInterval = h]

\* a failed write that is taken for a successful one
ResponseFailedMarksSynced(ag, r) == [ag EXCEPT !.lastSynced = r.json]

\* !response.ok, or fetch rejected: logged, nothing else
ResponseFailed(ag, r) == ag

\* response.ok: this.lastSyncedFiles = filesJson
ResponseOk(ag, r) == [ag EXCEPT !.lastSynced = r.json]

Call(op, a, verdict) == [op |-> op, agent |-> a, verdict |-> verdict]

\* the interval callback of handle h runs syncFiles / syncState
Tick(a, h, getterOk) ==
  /\ h \in intervals[a]
  /\ InFlight(net, a) < MaxInFlight
  /\ getterOk \/ (opsLeft > 0 /\ Bound(agent[a]))
  /\ opsLeft' = IF getterOk THEN opsLeft ELSE opsLeft - 1
  /\ net' = SyncSend(net, agent[a], a, mem[a], getterOk)
  /\ lastSync' = [lastSync EXCEPT
                    ![a] = SyncRecord(net, agent[a], a, mem[a], getterOk)]
  /\ lastCall' = Call("tick", a, SyncVerdict(agent[a], a, mem[a], getterOk))
  /\ UNCHANGED <<moreVars, coordVars, recVars, driven, agent, intervals, mem, remoteState,
                 msgSync, posted, started>>

\* forceSave: forget the last synced serialization, then sync
ForceSave(a, getterOk) ==
  LET forced == [agent[a] EXCEPT !.lastSynced = NeverSynced]
  IN /\ opsLeft > 0
     /\ InFlight(net, a) < MaxInFlight
     /\ getterOk \/ Bound(agent[a])
     /\ opsLeft' = opsLeft - 1
     /\ agent' = [agent EXCEPT ![a] = forced]
     /\ net' = SyncSend(net, forced, a, mem[a], getterOk)
     /\ lastSync' = [lastSync EXCEPT
                       ![a] = SyncRecord(net, forced, a, mem[a], getterOk)]
     /\ lastCall' = Call("forceSave", a, SyncVerdict(forced, a, mem[a], getterOk))
     /\ UNCHANGED <<moreVars, coordVars, recVars, driven, intervals, mem, remoteState, msgSync,
                    posted, started>>

\* syncNow with the answer of navigator.sendBeacon
SyncNowVerdict(ag, a, st, getterOk, queued) ==
  IF ~Bound(ag) THEN "unbound"
  ELSE IF ~getterOk THEN "failed"
  ELSE IF SameAsLastSynced(ag, Serialize(a, st)) THEN "unchanged"
  ELSE IF queued THEN "queued"
  ELSE "not-queued"

\* syncNow that gives way to a pending fetch of the agent
SyncNowExclusive(a, getterOk, queued) ==
  LET verdict ==
        IF \E i \in DOMAIN net : net[i].agent = a /\ net[i].kind = "fetch"
        THEN "deferred"
        ELSE SyncNowVerdict(agent[a], a, mem[a], getterOk, queued)
  IN /\ opsLeft > 0
     /\ InFlight(net, a) < MaxInFlight
     /\ (getterOk /\ queued) \/ Bound(agent[a])
     /\ opsLeft' = opsLeft - 1
     /\ net' = IF verdict = "queued"
               THEN Append(net, Request(a, agent[a].projectId, "beacon", mem[a]))
               ELSE net
     /\ lastCall' = Call("syncNow", a, verdict)
     /\ UNCHANGED <<moreVars, coordVars, recVars, driven, agent, intervals, mem,
                    remoteState, lastSync, msgSync, posted, started>>

SyncNow(a, getterOk, queued) ==
  LET verdict == SyncNowVerdict(agent[a], a, mem[a], getterOk, queued)
  IN /\ opsLeft > 0
     /\ InFlight(net, a) < MaxInFlight
     /\ (getterOk /\ queued) \/ Bound(agent[a])
     /\ opsLeft' = opsLeft - 1
     /\ net' = IF verdict = "queued"
               THEN Append(net, Request(a, agent[a].projectId, "beacon", mem[a]))
               ELSE net
     /\ lastCall' = Call("syncNow", a, verdict)
     /\ UNCHANGED <<moreVars, coordVars, recVars, driven, agent, intervals, mem, remoteState,
                    lastSync, msgSync, posted, started>>

\* stop: clearInterval on the handle the agent holds
Stop(a) ==
  /\ opsLeft > 0
  /\ opsLeft' = opsLeft - 1
  /\ IF agent[a].syncInterval # NoTimer
     THEN /\ intervals' = [intervals EXCEPT
                             ![a] = intervals[a] \ {agent[a].syncInterval}]
          /\ agent' = [agent EXCEPT ![a].syncInterval = NoTimer]
     ELSE UNCHANGED <<intervals, agent>>
  /\ UNCHANGED <<moreVars, coordVars, recVars, driven, mem, net, remoteState, lastSync,
                 lastCall, msgSync, posted, started>>

\* the user edits a file / changes the workbench
Change(a, st) ==
  /\ opsLeft > 0
  /\ st \in MemStates(a) \ {mem[a]}
  /\ opsLeft' = opsLeft - 1
  /\ mem' = [mem EXCEPT ![a] = st]
  /\ lastSync' = [lastSync EXCEPT ![a].dirty = TRUE]
  /\ UNCHANGED <<moreVars, coordVars, recVars, driven, agent, intervals, net, remoteState,
                 lastCall, msgSync, posted, started>>

\* the entries of a FileMap the files route saves: directories are left out
FilesToUpsert(files) ==
  [p \in {q \in DOMAIN files : files[q] = "file"} |-> files[p]]

\* upsert on (project_id, file_path): rows of the request replace the rows
\* of the same path, every other row stays
UpsertFiles(rows, files) ==
  [p \in (DOMAIN rows) \cup (DOMAIN files) |->
     IF p \in DOMAIN files THEN files[p] ELSE rows[p]]

\* the project_files rows / the workbench row of project p, none at first
RemoteRows(a, p) ==
  IF remoteState[a][p] = <<>>
  THEN IF a = "files" THEN EmptyFileMap ELSE <<>>
  ELSE remoteState[a][p][1]

\* the load route turns the project_files rows into a FileMap: one entry of
\* type file per row
LoadFileMap(rows) == [p \in DOMAIN rows |-> "file"]

\* what the store holds for the project once the files route has served
\* request r: the files of the body merged into the rows, and nothing
\* written when the body holds no file
ServedFiles(r) ==
  IF DOMAIN FilesToUpsert(r.body.files) = {}
  THEN remoteState["files"][r.project]
  ELSE <<UpsertFiles(RemoteRows("files", r.project),
                     FilesToUpsert(r.body.files)), r.kind>>

\* the workbench route upserts the one workbench row of the project
ServedWorkbench(r) == <<r.body, r.kind>>

Served(r) == IF r.agent = "files" THEN ServedFiles(r) ELSE ServedWorkbench(r)

\* request i reaches the Remote Project Store (requests travel on separate
\* connections: any pending one may arrive next) and is served
Deliver(i) ==
  /\ i \in DOMAIN net
  /\ net[i].stage = "sent"
  /\ remoteState' =
       [remoteState EXCEPT ![net[i].agent][net[i].project] = Served(net[i])]
  /\ net' = IF net[i].kind = "beacon" THEN RemoveAt(net, i)
            ELSE [net EXCEPT ![i].stage = "ok"]
  /\ UNCHANGED <<moreVars, coordVars, recVars, driven, agent, intervals, mem, lastSync,
                 lastCall, msgSync, posted, started, opsLeft>>

\* request i fails: the store answers an error (outcome "error") or the
\* request is lost (outcome "lost", fetch rejects); nothing is upserted and
\* syncFiles / syncState resumes in its failure branch
Fail(i, outcome) ==
  LET r == net[i]
      a == r.agent
  IN /\ i \in DOMAIN net
     /\ r.stage = "sent"
     /\ opsLeft > 0
     /\ opsLeft' = opsLeft - 1
     /\ net' = RemoveAt(net, i)
     /\ IF r.kind = "fetch"
        THEN /\ agent' = [agent EXCEPT ![a] = ResponseFailed(agent[a], r)]
             /\ lastSync' = IF r.latest
                            THEN [lastSync EXCEPT ![a].status = "failed"]
                            ELSE lastSync
        ELSE UNCHANGED <<agent, lastSync>>
     /\ UNCHANGED <<moreVars, coordVars, recVars, driven, intervals, mem, remoteState,
                    lastCall, msgSync, posted, started>>

\* the awaited fetch of request i answers OK and syncFiles / syncState
\* resumes
Respond(i) ==
  LET r == net[i]
      a == r.agent
  IN /\ i \in DOMAIN net
     /\ r.kind = "fetch"
     /\ r.stage = "ok"
     /\ agent' = [agent EXCEPT ![a] = ResponseOk(agent[a], r)]
     /\ lastSync' = IF r.latest THEN [lastSync EXCEPT ![a].status = "ok"]
                    ELSE lastSync
     /\ net' = RemoveAt(net, i)
     /\ UNCHANGED <<moreVars, coordVars, recVars, driven, intervals, mem, remoteState,
                    lastCall, msgSync, posted, started, opsLeft>>

----------------------------------------------------------------------------
(* storeMessageHistory and syncMessagesToSupabase                           *)

\* getNextId: one more than the highest identifier in the store
GetNextId(store) ==
  LET used == {k \in DOMAIN store : store[k].exists}
  IN IF used = {} THEN 1 ELSE 1 + (CHOOSE k \in used : \A j \in used : j <= k)

\* getUrlId: the artifact's identifier when no record uses it yet
UrlIdFree(store, u) == ~\E k \in DOMAIN store : store[k].exists /\ store[k].urlId = u

NotNoStore(m) == "no-store" \notin m.annotations

\* the filter that lets every message through
SyncFilterNone(messages) == messages

\* messages.filter((m) => !m.annotations?.includes('no-store'))
SyncFilter(messages) == SelectSeq(messages, NotNoStore)

\* the shape a message is POSTed in
MessageToSync(m) ==
  [id |-> m.id, role |-> m.role, content |-> m.content,
   annotations |-> m.annotations]

NoMsgSync == [stage |-> "idle", key |-> NoId, messages |-> <<>>]

\* start(projectId, getter) is called for an agent bound to no project or
\* to another one
Starts(a, p) == agent[a].projectId = NoProjectId \/ agent[a].projectId # p

StartedTotal(a) ==
  started[a][1] + started[a][2] + started[a][ArtifactUrlId]

\* setInterval answers a handle not used before
NextHandle(a) == StartedTotal(a) + 1

\* the log storeMessageHistory(messages) leaves in the record of a session
\* that has its chat id: the call returns at once on no messages, throws
\* before the write when the filter leaves none, and writes otherwise
StoredBy(messages) ==
  IF Len(messages) = 0 \/ SyncFilter(messages) = <<>>
  THEN localDb[chatId].messages
  ELSE archivedMessages \o SyncFilter(messages)

\* storeMessageHistory up to the call of syncMessagesToSupabase. artifact is
\* workbenchStore.firstArtifact?.id, extra the messages of this session.
StoreMessageHistory(artifact, extra) ==
  LET messages == initialMessages \o extra
      filtered == SyncFilter(messages)
      genUrl == urlId = NoId /\ artifact # NoId
      newUrlId == IF genUrl THEN artifact ELSE urlId
      needsId == Len(initialMessages) = 0 /\ chatId = NoId
      finalChatId == IF needsId THEN GetNextId(localDb) ELSE chatId
  IN /\ db = "open"
     /\ Len(messages) > 0
     /\ opsLeft > 0
     /\ msgSync.stage = "idle"
     /\ mixedId = NoId \/ ready
     /\ needsId => GetNextId(localDb) \in ChatIds
     /\ genUrl => UrlIdFree(localDb, artifact)
     /\ opsLeft' = opsLeft - 1
     /\ urlId' = newUrlId
     /\ IF filtered = <<>>
        THEN \* messages[messages.length - 1] is undefined: TypeError
             /\ UNCHANGED <<snapshots, chatId, toasts, localDb, msgSync>>
        ELSE /\ snapshots' =
                  IF chatId # NoId
                  THEN [snapshots EXCEPT
                          ![chatId] = [present |-> TRUE,
                                       chatIndex |-> filtered[Len(filtered)].id,
                                       files |-> mem["files"],
                                       summary |-> FALSE]]
                  ELSE snapshots
             /\ chatId' = finalChatId
             /\ IF finalChatId = NoId
                THEN /\ toasts' = toasts \cup {"chat-id-missing"}
                     /\ UNCHANGED <<localDb, msgSync>>
                ELSE IF SetMessagesFails(localDb, finalChatId, urlId)
                THEN /\ UNCHANGED <<localDb, msgSync, toasts>>
                ELSE /\ localDb' = SetMessages(localDb, finalChatId,
                                               archivedMessages \o filtered, urlId)
                     /\ msgSync' = [stage |-> "ensure",
                                    key |-> IF newUrlId # NoId THEN newUrlId
                                            ELSE finalChatId,
                                    messages |-> filtered]
                     /\ UNCHANGED toasts
     /\ UNCHANGED <<db, webcontainerOk, remote, routes, mixedId, rewindTo,
                    restoreInProgress, autoStartInProgress, ready,
                    archivedMessages, initialMessages, restores, lastDone,
                    lastEffect, activeRestores, timers, activationsLeft,
                    recVars, driven, agent, intervals, mem, net, remoteState,
                    lastSync, lastCall, posted, started, moreVars>>

\* ensureProject answers; on a project identifier the messages are POSTed
EnsureProjectReturn(ok) ==
  LET messagesToSync == SyncFilter(msgSync.messages)
  IN /\ msgSync.stage = "ensure"
     /\ ok \/ opsLeft > 0
     /\ opsLeft' = IF ok THEN opsLeft ELSE opsLeft - 1
     /\ IF ok /\ Len(messagesToSync) > 0
        THEN /\ posted' = posted \cup
                            {MessageToSync(messagesToSync[i]) :
                               i \in DOMAIN messagesToSync}
             /\ msgSync' = [msgSync EXCEPT !.stage = "post"]
        ELSE /\ msgSync' = NoMsgSync
             /\ UNCHANGED posted
     /\ UNCHANGED <<moreVars, coordVars, recVars, driven, agent, intervals, mem, net, remoteState,
                    lastSync, lastCall, started>>

\* one agent after the block that starts it (lines 800-803 / 806-816)
AgentAfterPost(a, p) ==
  IF Starts(a, p) THEN StartBind(agent[a], p, NextHandle(a)) ELSE agent[a]

\* the POST of the messages answers; on success the agents are started
MessagePostReturn(ok) ==
  LET p == msgSync.key
      afterFiles ==
        IF Starts("files", p)
        THEN SyncSend(net, AgentAfterPost("files", p), "files", mem["files"], TRUE)
        ELSE net
      afterBoth ==
        IF Starts("workbench", p)
        THEN SyncSend(afterFiles, AgentAfterPost("workbench", p), "workbench",
                      mem["workbench"], TRUE)
        ELSE afterFiles
  IN /\ msgSync.stage = "post"
     /\ ok \/ opsLeft > 0
     /\ opsLeft' = IF ok THEN opsLeft ELSE opsLeft - 1
     /\ msgSync' = NoMsgSync
     /\ IF ok
        THEN /\ agent' = [a \in Agents |-> AgentAfterPost(a, p)]
             /\ intervals' = [a \in Agents |->
                                IF Starts(a, p)
                                THEN intervals[a] \cup {NextHandle(a)}
                                ELSE intervals[a]]
             /\ started' = [a \in Agents |->
                              IF Starts(a, p)
                              THEN [started[a] EXCEPT ![p] = @ + 1]
                              ELSE started[a]]
             /\ net' = afterBoth
             /\ lastSync' = [a \in Agents |->
                               IF Starts(a, p)
                               THEN SyncRecord(net, AgentAfterPost(a, p), a,
                                               mem[a], TRUE)
                               ELSE lastSync[a]]
        ELSE /\ UNCHANGED <<agent, intervals, started, net, lastSync>>
     /\ UNCHANGED <<moreVars, coordVars, recVars, driven, mem, remoteState, lastCall,
                    posted>>

SyncIdle ==
  /\ agent = [a \in Agents |-> AgentIdle]
  /\ intervals = [a \in Agents |-> {}]
  /\ mem = [a \in Agents |->
              IF a = "files" THEN EmptyFileMap ELSE WorkbenchState("none")]
  /\ net = <<>>
  /\ remoteState = [a \in Agents |-> [p \in ProjectIds |-> <<>>]]
  /\ lastSync = [a \in Agents |-> NoSync]
  /\ lastCall = Call("none", "none", "none")
  /\ msgSync = NoMsgSync
  /\ posted = {}
  /\ started = [a \in Agents |-> [p \in ProjectIds |-> 0]]

----------------------------------------------------------------------------
(* Remote Project Store: the route handlers and the tables behind them      *)

Callers == {"A", "B"}
\* url_id values of create requests: text, never a project identifier
UrlIds == {MaxProjects + 2, MaxProjects + 3}
\* projects.id: generated on insert, never used again
Pids == 1..MaxProjects
NoPid == 0
Titles == {"Untitled Project", "renamed"}

ProjectRow(id, owner, u, title) ==
  [id |-> id, clerk_user_id |-> owner, url_id |-> u, title |-> title]

\* the messages of a POST to /messages: one message, in two versions
MessageBatches ==
  {<<[id |-> 1, role |-> "user", content |-> c]>> : c \in {"chat", "edited"}}

\* an ownership query that leaves the owner out
OwnedProjectAnyOwner(c, p) == \E r \in projects : r.id = p

\* .eq('id', projectId).eq('clerk_user_id', userId).single()
OwnedProject(c, p) ==
  \E r \in projects : r.id = p /\ r.clerk_user_id = c

\* a reference that is not checked
ProjectExistsUnchecked(p) == TRUE

ProjectExists(p) == \E r \in projects : r.id = p

\* .eq('url_id', url_id).eq('clerk_user_id', userId).single(): the id of the
\* row, or none
ExistingProject(c, u) ==
  IF \E r \in projects : r.url_id = u /\ r.clerk_user_id = c
  THEN (CHOOSE r \in projects : r.url_id = u /\ r.clerk_user_id = c).id
  ELSE NoPid

\* url_id TEXT UNIQUE NOT NULL
UrlIdTaken(u) == \E r \in projects : r.url_id = u

\* messagesToSave
MessagesToSave(p, batch) ==
  {[project_id |-> p, message_id |-> batch[i].id, role |-> batch[i].role,
    content |-> batch[i].content] : i \in DOMAIN batch}

\* an insert that ignores the rows of the same key
UpsertMessagesInsert(rows, new) == rows \cup new

\* upsert on (project_id, message_id)
UpsertMessages(rows, new) ==
  {r \in rows : ~\E n \in new : n.project_id = r.project_id
                                /\ n.message_id = r.message_id} \cup new

\* filesToUpsert of the files route, as rows
FileRowsToUpsert(p, files) ==
  {[project_id |-> p, file_path |-> path, file_type |-> "text"] :
     path \in DOMAIN FilesToUpsert(files)}

\* upsert on (project_id, file_path)
UpsertFileRows(rows, new) ==
  {r \in rows : ~\E n \in new : n.project_id = r.project_id
                                /\ n.file_path = r.file_path} \cup new

\* the row the workbench route upserts
WorkbenchRow(p, body) ==
  [project_id |-> p, selected_file |-> body.selected_file,
   open_files |-> body.open_files, current_view |-> body.current_view,
   show_workbench |-> body.show_workbench]

\* upsert on project_id
UpsertWorkbench(rows, new) ==
  {r \in rows : r.project_id # new.project_id} \cup {new}

\* ON DELETE CASCADE
Cascade(rows, p) == {r \in rows : r.project_id # p}

\* a response: status, the caller it goes to, and the projects whose data
\* (project row, messages, files, workbench) it carries
Resp(c, kind, target, status, project, existed) ==
  [caller |-> c, kind |-> kind, target |-> target, status |-> status,
   project |-> project, existed |-> existed, repeated |-> FALSE]
NoResp == Resp("none", "none", NoPid, 0, NoPid, FALSE)

\* a handler suspended after its first query
Handler(c, kind, target, found, payload, client) ==
  [caller |-> c, kind |-> kind, target |-> target, found |-> found,
   payload |-> payload, client |-> client]

NoClientSync == [stage |-> "idle", project |-> NoPid]

Suspend(h) ==
  /\ srvOps > 0
  /\ Len(handlers) < MaxPending
  /\ srvOps' = srvOps - 1
  /\ handlers' = Append(handlers, h)

\* POST /api/projects, intent create: the query for the caller's project of
\* this url_id has answered
CreateRequest(c, u) ==
  /\ Suspend(Handler(c, "create", u, ExistingProject(c, u), <<>>, FALSE))
  /\ UNCHANGED <<projects, chatRows, fileRows, wbRows, lastResp, delivered,
                 nextPid, clientSync>>

\* what the create handler answers and writes when it resumes
CreateOutcome(h) ==
  IF h.found # NoPid
  THEN \* update last_opened_at ... .eq('id', existing.id).select().single()
       IF ProjectExists(h.found)
       THEN [resp |-> Resp(h.caller, "create", h.target, 200, h.found, TRUE),
             rows |-> projects, pid |-> nextPid]
       ELSE [resp |-> Resp(h.caller, "create", h.target, 500, NoPid, FALSE),
             rows |-> projects, pid |-> nextPid]
  ELSE IF UrlIdTaken(h.target)
  THEN \* the insert violates the unique constraint on url_id
       [resp |-> Resp(h.caller, "create", h.target, 500, NoPid, FALSE),
        rows |-> projects, pid |-> nextPid]
  ELSE [resp |-> Resp(h.caller, "create", h.target, 200, nextPid, FALSE),
        rows |-> projects \cup
                   {ProjectRow(nextPid, h.caller, h.target, "Untitled Project")},
        pid |-> nextPid + 1]

\* POST /api/projects, intent update
UpdateRequest(c, p, title) ==
  /\ srvOps > 0
  /\ srvOps' = srvOps - 1
  /\ IF OwnedProject(c, p)
     THEN /\ projects' = {IF r.id = p THEN [r EXCEPT !.title = title] ELSE r :
                            r \in projects}
          /\ lastResp' = Resp(c, "update", p, 200, p, FALSE)
     ELSE \* .single() on no row gives an error
          /\ lastResp' = Resp(c, "update", p, 500, NoPid, FALSE)
          /\ UNCHANGED projects
  /\ UNCHANGED <<chatRows, fileRows, wbRows, handlers, delivered, nextPid,
                 clientSync>>

\* POST /api/projects, intent delete
DeleteRequest(c, p) ==
  /\ srvOps > 0
  /\ srvOps' = srvOps - 1
  /\ projects' = {r \in projects : ~(r.id = p /\ r.clerk_user_id = c)}
  /\ IF OwnedProject(c, p)
     THEN /\ chatRows' = Cascade(chatRows, p)
          /\ fileRows' = Cascade(fileRows, p)
          /\ wbRows' = Cascade(wbRows, p)
     ELSE UNCHANGED <<chatRows, fileRows, wbRows>>
  /\ lastResp' = Resp(c, "delete", p, 200, NoPid, FALSE)
  /\ UNCHANGED <<handlers, delivered, nextPid, clientSync>>

\* POST /api/projects/:id/messages | files | workbench: the ownership query
\* has answered; without the project the handler answers 404 at once
WriteRequest(c, kind, p, payload, client) ==
  /\ IF OwnedProject(c, p)
     THEN /\ Suspend(Handler(c, kind, p, p, payload, client))
          /\ UNCHANGED lastResp
     ELSE /\ srvOps > 0
          /\ srvOps' = srvOps - 1
          /\ lastResp' = Resp(c, kind, p, 404, NoPid, FALSE)
          /\ UNCHANGED handlers
  /\ UNCHANGED <<projects, chatRows, fileRows, wbRows, delivered, nextPid>>

\* the rows a write handler leaves when it resumes, per table
WriteOutcome(h) ==
  LET new == IF h.kind = "messages" THEN MessagesToSave(h.target, h.payload)
             ELSE IF h.kind = "files" THEN FileRowsToUpsert(h.target, h.payload)
             ELSE {WorkbenchRow(h.target, h.payload)}
      nothing == h.kind = "files" /\ new = {}
      \* project_id REFERENCES projects(id)
      status == IF nothing \/ ProjectExists(h.target) THEN 200 ELSE 500
      writes == status = 200 /\ ~nothing
  IN [resp |-> [Resp(h.caller, h.kind, h.target, status,
                     IF status = 200 THEN h.target ELSE NoPid, FALSE)
                  EXCEPT !.repeated =
                    writes /\ <<h.kind, h.target, h.payload>> \in delivered],
      chat |-> IF writes /\ h.kind = "messages"
               THEN UpsertMessages(chatRows, new) ELSE chatRows,
      files |-> IF writes /\ h.kind = "files"
                THEN UpsertFileRows(fileRows, new) ELSE fileRows,
      wb |-> IF writes /\ h.kind = "workbench"
             THEN UpsertWorkbench(wbRows, WorkbenchRow(h.target, h.payload))
             ELSE wbRows,
      served |-> IF writes THEN {<<h.kind, h.target, h.payload>>} ELSE {}]

\* ensureProject of the client: its create request answered
ClientAfterCreate(h, resp) ==
  IF ~h.client THEN clientSync
  ELSE IF resp.status = 200
  THEN [stage |-> "post", project |-> resp.project]
  ELSE NoClientSync

\* a suspended handler resumes, writes and answers
Resume(i) ==
  /\ i \in DOMAIN handlers
  /\ LET h == handlers[i]
     IN IF h.kind = "create"
        THEN LET out == CreateOutcome(h)
             IN /\ out.pid <= MaxProjects + 1
                /\ projects' = out.rows
                /\ nextPid' = out.pid
                /\ lastResp' = out.resp
                /\ clientSync' = ClientAfterCreate(h, out.resp)
                /\ UNCHANGED <<chatRows, fileRows, wbRows, delivered>>
        ELSE LET out == WriteOutcome(h)
             IN /\ chatRows' = out.chat
                /\ fileRows' = out.files
                /\ wbRows' = out.wb
                /\ lastResp' = out.resp
                /\ delivered' = delivered \cup out.served
                /\ UNCHANGED <<projects, nextPid, clientSync>>
  /\ handlers' = RemoveAt(handlers, i)
  /\ UNCHANGED srvOps

\* GET /api/projects/:id/load: by id, else by url_id, of the caller's rows
LoadFound(c, key) ==
  IF OwnedProject(c, key) THEN key ELSE ExistingProject(c, key)

LoadRequest(c, key) ==
  /\ srvOps > 0
  /\ srvOps' = srvOps - 1
  /\ lastResp' = IF LoadFound(c, key) # NoPid
                 THEN Resp(c, "load", key, 200, LoadFound(c, key), FALSE)
                 ELSE Resp(c, "load", key, 404, NoPid, FALSE)
  /\ UNCHANGED <<projects, chatRows, fileRows, wbRows, handlers, delivered,
                 nextPid, clientSync>>

\* syncMessagesToSupabase of caller A's client: ensureProject sends its
\* create request
ClientEnsure(u) ==
  /\ clientSync.stage = "idle"
  /\ Suspend(Handler("A", "create", u, ExistingProject("A", u), <<>>, TRUE))
  /\ clientSync' = [stage |-> "ensure", project |-> NoPid]
  /\ UNCHANGED <<projects, chatRows, fileRows, wbRows, lastResp, delivered,
                 nextPid>>

\* with the project identifier ensureProject returned, the client POSTs the
\* messages
ClientPost(batch) ==
  /\ clientSync.stage = "post"
  /\ WriteRequest("A", "messages", clientSync.project, batch, TRUE)
  /\ clientSync' = NoClientSync

\* a POST to /messages, /files or /workbench that is not the client's
ApiWrite(c, kind, p, payload) ==
  /\ WriteRequest(c, kind, p, payload, FALSE)
  /\ UNCHANGED clientSync

SrvIdle ==
  /\ projects = {}
  /\ chatRows = {}
  /\ fileRows = {}
  /\ wbRows = {}
  /\ handlers = <<>>
  /\ lastResp = NoResp
  /\ delivered = {}
  /\ nextPid = 1
  /\ clientSync = NoClientSync
  /\ srvOps = 0

----------------------------------------------------------------------------
(* storeMessageHistory, await by await                                      *)

\* getUrlId: the candidate when no record uses it, else the candidate with
\* a suffix
GetUrlId(store, candidate) ==
  IF UrlIdFree(store, candidate) THEN candidate ELSE candidate + 1

\* the messages a call of storeMessageHistory is given
CallMessages ==
  {<<ChatMsg(NewMsgId, 1)>>,
   <<Msg(NewMsgId, "user", "chat", {"no-store"}, {})>>}

\* a call suspended at an await: urlId is the state the closure captured,
\* _urlId the local variable, result the value the awaited request resolves
\* to
PendingCall(stage, u, localUrlId, result, messages, finalChatId) ==
  [stage |-> stage, urlId |-> u, _urlId |-> localUrlId, result |-> result,
   messages |-> messages, finalChatId |-> finalChatId]

\* the identifier setMessages is given: the urlId of the closure
PersistedUrlId(c) == c.urlId

\* from "const finalChatId = chatId.get()" to "await setMessages(...)"; the
\* put is issued before the call suspends. rest: the other suspended calls.
PersistStep(c, cid, rest) ==
  IF cid = NoId
  THEN /\ toasts' = toasts \cup {"chat-id-missing"}
       /\ calls' = rest
       /\ UNCHANGED localDb
  ELSE IF SetMessagesFails(localDb, cid, PersistedUrlId(c))
  THEN /\ calls' = rest
       /\ UNCHANGED <<localDb, toasts>>
  ELSE /\ localDb' = SetMessages(localDb, cid,
                                 archivedMessages \o c.messages,
                                 PersistedUrlId(c))
       /\ calls' = Append(rest, [c EXCEPT !.stage = "setMessages",
                                          !.finalChatId = cid])
       /\ UNCHANGED toasts

\* from "let chatSummary" to "await getNextId(db)" or, when the session has
\* its identifier, on to setMessages
SnapshotStep(c, rest) ==
  IF c.messages = <<>>
  THEN \* messages[messages.length - 1] is undefined: TypeError
       /\ calls' = rest
       /\ UNCHANGED <<snapshots, chatId, localDb, toasts>>
  ELSE /\ snapshots' =
            IF chatId # NoId
            THEN [snapshots EXCEPT
                    ![chatId] = [present |-> TRUE,
                                 chatIndex |-> c.messages[Len(c.messages)].id,
                                 files |-> mem["files"],
                                 summary |-> FALSE]]
            ELSE snapshots
       /\ IF Len(initialMessages) = 0 /\ chatId = NoId
          THEN /\ calls' = Append(rest, [c EXCEPT !.stage = "getNextId",
                                                  !.result = GetNextId(localDb)])
               /\ UNCHANGED <<chatId, localDb, toasts>>
          ELSE /\ PersistStep(c, chatId, rest)
               /\ UNCHANGED chatId

CallRest ==
  UNCHANGED <<db, webcontainerOk, remote, routes, mixedId, rewindTo,
              restoreInProgress, autoStartInProgress, ready, archivedMessages,
              initialMessages, restores, lastDone, lastEffect, activeRestores,
              timers, activationsLeft, recVars, syncVars, srvVars, boxVars,
              autoVars>>

\* storeMessageHistory is called: up to its first await
CallInvoke(artifact, messages) ==
  LET c == PendingCall("getUrlId", urlId, urlId, NoId, SyncFilter(messages),
                       NoId)
  IN /\ db = "open"
     /\ Len(messages) > 0
     /\ callOps > 0
     /\ Len(calls) < MaxCalls
     /\ callOps' = callOps - 1
     /\ IF urlId = NoId /\ artifact # NoId
        THEN /\ calls' = Append(calls, [c EXCEPT
                                          !.result = GetUrlId(localDb, artifact)])
             /\ UNCHANGED <<snapshots, chatId, localDb, toasts>>
        ELSE SnapshotStep(c, calls)
     /\ UNCHANGED <<urlId, syncedAs>>
     /\ CallRest

\* "await getUrlId" resolves: setUrlId, then on to the next await
ResumeGetUrlId ==
  /\ calls # <<>>
  /\ Head(calls).stage = "getUrlId"
  /\ urlId' = Head(calls).result
  /\ SnapshotStep([Head(calls) EXCEPT !._urlId = Head(calls).result],
                  Tail(calls))
  /\ UNCHANGED <<syncedAs, callOps>>
  /\ CallRest

\* "await getNextId" resolves: chatId.set, then on to setMessages
ResumeGetNextId ==
  /\ calls # <<>>
  /\ Head(calls).stage = "getNextId"
  /\ Head(calls).result \in ChatIds
  /\ chatId' = Head(calls).result
  /\ PersistStep(Head(calls), Head(calls).result, Tail(calls))
  /\ UNCHANGED <<urlId, snapshots, syncedAs, callOps>>
  /\ CallRest

\* "await setMessages" resolves: syncMessagesToSupabase(finalChatId, _urlId)
\* is called under the key _urlId || finalChatId
ResumeSetMessages ==
  /\ calls # <<>>
  /\ Head(calls).stage = "setMessages"
  /\ syncedAs' = syncedAs \cup
       {IF Head(calls)._urlId # NoId THEN Head(calls)._urlId
        ELSE Head(calls).finalChatId}
  /\ calls' = Tail(calls)
  /\ UNCHANGED <<urlId, chatId, localDb, snapshots, toasts, callOps>>
  /\ CallRest

----------------------------------------------------------------------------
(* The sandbox populators: restoreSnapshot and writeFilesToWebContainer     *)

\* A path is the sequence of its segments between slashes: "/home/project"
\* is <<"", "home", "project">> and the empty string is <<"">>.
Workdir == <<"", "home", "project">>
EmptyPath == <<"">>

Populators == {"snapshot", "remote"}

\* the positions at which the string of the workdir occurs in a path
WorkdirAt(key) ==
  {i \in 2..(Len(key) - 1) : key[i] = Workdir[2] /\ key[i + 1] = Workdir[3]}

\* key.replace(workdir, ''): the first occurrence goes
ReplaceWorkdir(key) ==
  IF WorkdirAt(key) = {} THEN key
  ELSE LET i == CHOOSE j \in WorkdirAt(key) : \A k \in WorkdirAt(key) : j <= k
       IN SubSeq(key, 1, i - 1) \o SubSeq(key, i + 2, Len(key))

\* key.startsWith(workdir)
StartsWithWorkdir(key) ==
  Len(key) >= Len(Workdir) /\ SubSeq(key, 1, Len(Workdir)) = Workdir

\* path.replace(/^\/+/, '')
RECURSIVE StripLeadingSlashes(_)
StripLeadingSlashes(path) ==
  IF Len(path) > 1 /\ path[1] = "" THEN StripLeadingSlashes(Tail(path))
  ELSE path

\* the path an entry is created under: restoreSnapshot removes the workdir
\* only from the start of the key, writeFilesToWebContainer wherever it
\* occurs first
RelativePath(kind, key) ==
  StripLeadingSlashes(
    IF kind = "snapshot"
    THEN (IF StartsWithWorkdir(key) THEN ReplaceWorkdir(key) ELSE key)
    ELSE ReplaceWorkdir(key))

\* path.split('/').slice(0, -1).join('/'); <<>> is the empty string here
DirPath(path) == SubSeq(path, 1, Len(path) - 1)

\* mkdir(path, { recursive: true }) creates the path and what leads to it
Ancestors(path) == {SubSeq(path, 1, n) : n \in 1..Len(path)}

\* the entries of the FileMaps: keys under the workdir, the workdir itself,
\* and a key whose dirent is undefined
Entry(key, type) == [key |-> key, type |-> type]
Entries ==
  {Entry(Workdir \o <<"package.json">>, "file"),
   Entry(Workdir \o <<"src">>, "folder"),
   Entry(Workdir \o <<"src", "a.js">>, "file"),
   Entry(Workdir, "folder"),
   Entry(Workdir \o <<"old.js">>, "none")}

\* Object.entries(files): up to MaxEntries entries in insertion order
EntryLists == UNION {InjSeqs(Entries, n) : n \in 0..MaxEntries}

\* a file is written without a mkdir of its directory
FirstStepWrite(path) == "write"

\* "if (dirPath) await mkdir(dirPath)" comes before writeFile
FirstStep(path) == IF DirPath(path) # <<>> THEN "mkdir" ELSE "write"

\* the position of the populator at its next call of the sandbox: the
\* folder loop passes over everything but folders with a path, the file
\* loop over everything but files with a path
RECURSIVE Seek(_)
Seek(b) ==
  IF b.phase \notin {"folders", "files"} THEN b
  ELSE IF b.idx > Len(b.files)
  THEN IF b.phase = "folders"
       THEN Seek([b EXCEPT !.phase = "files", !.idx = 1])
       ELSE [b EXCEPT !.phase = "verify", !.idx = 0]
  ELSE LET e == b.files[b.idx]
           path == RelativePath(b.kind, e.key)
       IN IF b.phase = "folders" /\ e.type = "folder" /\ path # EmptyPath
          THEN [b EXCEPT !.step = "mkdir"]
          ELSE IF b.phase = "files" /\ e.type = "file" /\ path # EmptyPath
          THEN [b EXCEPT !.step = FirstStep(path)]
          ELSE Seek([b EXCEPT !.idx = b.idx + 1])

\* the populator is called with a FileMap and the sandbox has booted
Populate(kind, files) ==
  Seek([kind |-> kind, files |-> files, phase |-> "folders", idx |-> 1,
        step |-> "mkdir", count |-> 0, manifest |-> FALSE])

\* the loop goes on with the entry after the current one
NextEntry(b) == Seek([b EXCEPT !.idx = b.idx + 1])

\* a failure ends the populator
EntryFailedAborts(b) == [b EXCEPT !.phase = "threw"]

\* catch (error) { console.error(...) } inside the loop body
EntryFailed(b) == NextEntry(b)

BoxPath == RelativePath(box.kind, box.files[box.idx].key)

SandboxOp(op, path, ok) ==
  [op |-> op, path |-> path, ok |-> ok, entry |-> box.idx, loop |-> box.phase]

BoxRest ==
  UNCHANGED <<coordVars, recVars, syncVars, srvVars, callVars, autoVars>>

\* the folder loop: await fs.mkdir(folderPath, { recursive: true })
MkdirFolder(ok) ==
  /\ box.phase = "folders"
  /\ boxLog' = Append(boxLog, SandboxOp("mkdir", BoxPath, ok))
  /\ sandbox' = IF ok
                THEN [sandbox EXCEPT !.dirs = @ \cup Ancestors(BoxPath)]
                ELSE sandbox
  /\ box' = IF ok THEN NextEntry(box) ELSE EntryFailed(box)
  /\ BoxRest

\* the file loop: await fs.mkdir(dirPath, { recursive: true })
MkdirParent(ok) ==
  /\ box.phase = "files"
  /\ box.step = "mkdir"
  /\ boxLog' = Append(boxLog, SandboxOp("mkdir", DirPath(BoxPath), ok))
  /\ sandbox' = IF ok
                THEN [sandbox EXCEPT !.dirs = @ \cup Ancestors(DirPath(BoxPath))]
                ELSE sandbox
  /\ box' = IF ok THEN [box EXCEPT !.step = "write"] ELSE EntryFailed(box)
  /\ BoxRest

\* the file loop: await fs.writeFile(filePath, content); it cannot succeed
\* in a directory that does not exist
WriteFile(ok) ==
  /\ box.phase = "files"
  /\ box.step = "write"
  /\ ok => DirPath(BoxPath) = <<>> \/ DirPath(BoxPath) \in sandbox.dirs
  /\ boxLog' = Append(boxLog, SandboxOp("writeFile", BoxPath, ok))
  /\ sandbox' = IF ok THEN [sandbox EXCEPT !.files = @ \cup {BoxPath}]
                ELSE sandbox
  /\ box' = IF ok THEN NextEntry([box EXCEPT !.count = @ + 1])
            ELSE EntryFailed(box)
  /\ BoxRest

\* the look for package.json after the loops, inside its own try
VerifyManifest ==
  /\ box.phase = "verify"
  /\ box' = [box EXCEPT !.phase = "done",
                        !.manifest = <<"package.json">> \in sandbox.files]
  /\ UNCHANGED <<sandbox, boxLog>>
  /\ BoxRest

NoBox ==
  [kind |-> "snapshot", files |-> <<>>, phase |-> "idle", idx |-> 0,
   step |-> "mkdir", count |-> 0, manifest |-> FALSE]

NoSandbox == [dirs |-> {}, files |-> {}]

BoxIdle ==
  /\ box = NoBox
  /\ sandbox = NoSandbox
  /\ boxLog = <<>>

----------------------------------------------------------------------------
(* The auto-start routine: autoStartApplication and autoStartProject        *)

Manifest == <<"package.json">>

\* what detectProjectCommands can answer: a setup command, a start command,
\* both or none
Commands(setup, start) == [setupCommand |-> setup, startCommand |-> start]
CommandSets == {Commands(setup, start) : setup, start \in BOOLEAN}

\* exit codes of a process: success and failure
ExitCodes == {0, 1}
NoExitCode == 2

NoProcess == [status |-> "none", code |-> NoExitCode]
NoProcs == [setup |-> NoProcess, start |-> NoProcess]

NoAuto ==
  [routine |-> "none", commands |-> Commands(FALSE, FALSE), phase |-> "idle"]

\* the 1.5 s timer runs the routine of the local or of the remote path
AutoStart(routine) ==
  [routine |-> routine, commands |-> Commands(FALSE, FALSE),
   phase |-> "detect"]

\* the routine goes on to the start step only when setup succeeded
AfterSetupOnSuccess(a, code) ==
  IF a.commands.startCommand /\ code = 0 THEN [a EXCEPT !.phase = "start"]
  ELSE [a EXCEPT !.phase = "returned"]

\* after the setup step, whatever became of it: "if (commands.startCommand)"
AfterSetup(a, code) ==
  IF a.commands.startCommand THEN [a EXCEPT !.phase = "start"]
  ELSE [a EXCEPT !.phase = "returned"]

AutoRest ==
  UNCHANGED <<coordVars, recVars, syncVars, srvVars, callVars, boxVars>>

\* await detectProjectCommands(fileContents) and the return when it found
\* no command; ok: neither the detection nor the webcontainer promise
\* rejects
DetectCommands(commands, ok) ==
  /\ auto.phase = "detect"
  /\ auto' = IF ok /\ (commands.setupCommand \/ commands.startCommand)
             THEN [auto EXCEPT !.commands = commands, !.phase = "verify"]
             ELSE IF ok
             THEN [auto EXCEPT !.commands = commands, !.phase = "returned"]
             ELSE [auto EXCEPT !.phase = "returned"]
  /\ UNCHANGED procs
  /\ AutoRest

\* await fs.readFile('package.json') in its own try: the routine returns
\* when it throws
ReadManifest ==
  /\ auto.phase = "verify"
  /\ auto' = IF Manifest \notin sandbox.files
             THEN [auto EXCEPT !.phase = "returned"]
             ELSE IF auto.commands.setupCommand
             THEN [auto EXCEPT !.phase = "setup"]
             ELSE AfterSetup(auto, NoExitCode)
  /\ UNCHANGED procs
  /\ AutoRest

\* await spawn('sh', ['-c', setupCommand]) settles
SpawnSetup(ok) ==
  /\ auto.phase = "setup"
  /\ procs.setup.status = "none"
  /\ IF ok
     THEN /\ procs' = [procs EXCEPT !.setup.status = "running"]
          /\ auto' = [auto EXCEPT !.phase = "setup-exit"]
     ELSE /\ procs' = [procs EXCEPT !.setup.status = "spawn-failed"]
          /\ auto' = AfterSetup(auto, NoExitCode)
  /\ AutoRest

\* await setupProcess.exit resolves
SetupExits(code) ==
  /\ auto.phase = "setup-exit"
  /\ procs.setup.status = "running"
  /\ procs' = [procs EXCEPT !.setup = [status |-> "exited", code |-> code]]
  /\ auto' = AfterSetup(auto, code)
  /\ AutoRest

\* await spawn('sh', ['-c', startCommand]) settles; exit.then(...) is
\* registered and the routine returns
SpawnStart(ok) ==
  /\ auto.phase = "start"
  /\ procs.start.status = "none"
  /\ procs' = [procs EXCEPT
                 !.start.status = IF ok THEN "running" ELSE "spawn-failed"]
  /\ auto' = [auto EXCEPT !.phase = "returned"]
  /\ AutoRest

\* the start process exits: the callback of startProcess.exit.then
StartExits(code) ==
  /\ procs.start.status = "running"
  /\ procs' = [procs EXCEPT !.start = [status |-> "exited", code |-> code]]
  /\ UNCHANGED auto
  /\ AutoRest

AutoIdle ==
  /\ auto = NoAuto
  /\ procs = NoProcs

CallIdle ==
  /\ calls = <<>>
  /\ syncedAs = {}
  /\ callOps = 0

ExtraIdle == CallIdle /\ BoxIdle /\ AutoIdle

MoreIdle == SrvIdle /\ ExtraIdle

----------------------------------------------------------------------------
(* Initial states                                                           *)

\* the logs the coordinator's stores hold
StoredLog == <<ChatMsg(1, 1), ChatMsg(2, 2), ChatMsg(3, 3)>>
RemoteLog == <<ChatMsg(1, 1), ChatMsg(2, 2)>>
StoredSnapshot(files) ==
  [present |-> TRUE, chatIndex |-> 2, files |-> files, summary |-> FALSE]

\* the component right after construction
CoordStart ==
  /\ mixedId = NoId
  /\ rewindTo = NoMsgId
  /\ restoreInProgress = FALSE
  /\ autoStartInProgress = FALSE
  /\ ready = FALSE
  /\ archivedMessages = <<>>
  /\ initialMessages = <<>>
  /\ urlId = NoId
  /\ chatId = NoId
  /\ restores = <<>>
  /\ activeRestores = {}
  /\ timers = <<>>
  /\ toasts = {}
  /\ lastDone = NoRestore
  /\ lastEffect = "none"

NoStores ==
  /\ localDb = [k \in ChatIds |-> NoRecord]
  /\ snapshots = [k \in ChatIds |-> NoSnapshot]
  /\ remote = [k \in ChatIds |-> NoProject]
  /\ webcontainerOk = TRUE

ReconcileIdle ==
  /\ reconcileIn = NoReconcileIn
  /\ reconcileOut = NoReconcileOut
  /\ reconcileAgain = NoReconcileOut

\* Spec: every chat is either absent locally or held with its log and a
\* snapshot carrying files; every project is absent or held with messages.
Init ==
  /\ CoordStart
  /\ ReconcileIdle
  /\ SyncIdle
  /\ MoreIdle
  /\ driven = "files"
  /\ opsLeft = 0
  /\ activationsLeft = MaxActivations
  /\ routes = (ChatIds \cup {NoId}) \X {NoMsgId}
  /\ db \in {"open", "failed", "disabled"}
  /\ IF db = "open"
     THEN /\ webcontainerOk \in BOOLEAN
          /\ localDb \in
               {[k \in ChatIds |-> IF k \in H THEN Record(k, k, StoredLog)
                                    ELSE NoRecord] : H \in SUBSET ChatIds}
          /\ snapshots = [k \in ChatIds |->
                            IF localDb[k].exists THEN StoredSnapshot(ManifestOnly)
                            ELSE NoSnapshot]
          /\ remote \in {[k \in ChatIds |-> IF k \in R
                                            THEN Project(k, RemoteLog, TRUE)
                                            ELSE NoProject] : R \in SUBSET ChatIds}
     ELSE NoStores

Next ==
  \/ \E id \in ChatIds \cup {NoId}, rw \in RewindIds : Activate(id, rw)
  \/ \E t \in 1..MaxActivations + 1 : LocalQueryReject(t)
  \/ \E t \in 1..MaxActivations + 1, genId \in GenIds : LocalQueryResolve(t, genId)
  \/ \E t \in 1..MaxActivations + 1 : PopulateDone(t)
  \/ \E p \in ChatIds, answer \in {"ok", "notfound", "httperror", "netfail"} :
       RemoteLoadReturn(p, answer)
  \/ \E t \in 1..MaxActivations + 1 : RemoteContinue(t)
  \/ \E i \in 1..(2 * MaxActivations + 2) : FireGraceTimer(i)
  \/ \E i \in 1..(2 * MaxActivations + 2) : FireAutoStartTimer(i)

Spec == Init /\ [][Next]_vars

----------------------------------------------------------------------------
(* SpecStores: one activation over every combination of store contents      *)

LocalRecords(k) ==
  {NoRecord} \cup
  {Record(k, u, m) : u \in {NoId} \cup ChatIds, m \in {<<>>, StoredLog}}

\* the url-identifier index admits no two records with one url-identifier
UniqueUrlIds(store) ==
  \A j, k \in DOMAIN store :
    (j # k /\ store[j].exists /\ store[k].exists /\ store[j].urlId # NoId)
      => store[j].urlId # store[k].urlId

Projects ==
  {NoProject} \cup
  {Project(u, m, f) : u \in ChatIds, m \in {<<>>, RemoteLog}, f \in BOOLEAN}

StoresInit ==
  /\ CoordStart
  /\ ReconcileIdle
  /\ SyncIdle
  /\ MoreIdle
  /\ driven = "files"
  /\ opsLeft = 0
  /\ activationsLeft = StoreActivations
  /\ routes = (ChatIds \cup {NoId}) \X {NoMsgId, 3}
  /\ db = "open"
  /\ webcontainerOk \in BOOLEAN
  /\ localDb \in {f \in [ChatIds -> UNION {LocalRecords(k) : k \in ChatIds}] :
                    /\ \A k \in ChatIds : f[k] \in LocalRecords(k)
                    /\ UniqueUrlIds(f)}
  /\ snapshots \in {f \in [ChatIds -> {NoSnapshot, StoredSnapshot(ManifestOnly)}] :
                      \A k \in ChatIds : f[k].present => localDb[k].exists}
  /\ remote \in {f \in [ChatIds -> Projects] : ~f[2].exists}

SpecStores == StoresInit /\ [][Next]_vars

----------------------------------------------------------------------------
(* SpecReconcile: the reconciler over every log, snapshot and rewind target *)

ReconcileInit ==
  /\ CoordStart
  /\ NoStores
  /\ SyncIdle
  /\ MoreIdle
  /\ driven = "files"
  /\ opsLeft = 0
  /\ db = "open"
  /\ routes = {}
  /\ activationsLeft = 0
  /\ reconcileIn \in [messages : Logs, snapshot : Snapshots, rewindId : RewindIds]
  /\ reconcileOut = NoReconcileOut
  /\ reconcileAgain = NoReconcileOut

ReconcileNext ==
  \/ \E genId \in GenIds : RunReconcile(genId)
  \/ \E genId \in GenIds : RunReconcileAgain(genId)

SpecReconcile == ReconcileInit /\ [][ReconcileNext]_vars

----------------------------------------------------------------------------
(* FairSpec: pending timers run                                             *)

TimerFires ==
  \E i \in 1..(2 * MaxActivations + 2) : FireGraceTimer(i) \/ FireAutoStartTimer(i)

FairSpec == Spec /\ WF_vars(TimerFires)

----------------------------------------------------------------------------
(* SpecSync: a new chat whose messages are stored and synced, and the two   *)
(* sync agents the message sync starts                                      *)

\* the messages the session added to the restored ones
SessionMessages ==
  {<<>>, <<ChatMsg(NewMsgId, Len(initialMessages) + 1)>>}

SyncInit ==
  /\ CoordStart
  /\ NoStores
  /\ ReconcileIdle
  /\ SyncIdle
  /\ MoreIdle
  /\ driven \in Agents
  /\ db = "open"
  /\ routes = {}
  /\ activationsLeft = 0
  /\ opsLeft = MaxSyncOps

HistoryNext ==
  \/ \E artifact \in {NoId, ArtifactUrlId}, extra \in SessionMessages :
       StoreMessageHistory(artifact, extra)
  \/ \E ok \in BOOLEAN : EnsureProjectReturn(ok)
  \/ \E ok \in BOOLEAN : MessagePostReturn(ok)

\* the requests of the driven agent
Driven(i) == i \in DOMAIN net /\ net[i].agent = driven

AgentNext ==
  \/ \E h \in 1..(MaxSyncOps + 1), getterOk \in BOOLEAN :
       Tick(driven, h, getterOk)
  \/ \E getterOk \in BOOLEAN : ForceSave(driven, getterOk)
  \/ \E getterOk \in BOOLEAN, queued \in BOOLEAN :
       SyncNow(driven, getterOk, queued)
  \/ Stop(driven)
  \/ \E st \in MemStates(driven) : Change(driven, st)
  \/ \E i \in 1..(2 * MaxInFlight) : Driven(i) /\ Deliver(i)
  \/ \E i \in 1..(2 * MaxInFlight), outcome \in {"error", "lost"} :
       Driven(i) /\ Fail(i, outcome)
  \/ \E i \in 1..(2 * MaxInFlight) : Driven(i) /\ Respond(i)

SyncNext == HistoryNext \/ AgentNext

SpecSync == SyncInit /\ [][SyncNext]_vars

\* FairSync: running intervals keep firing, requests on their way arrive and
\* OK answers are handled
IntervalFires == \E h \in 1..(MaxSyncOps + 1) : Tick(driven, h, TRUE)
RequestArrives == \E i \in 1..(2 * MaxInFlight) : Driven(i) /\ Deliver(i)
AnswerHandled == \E i \in 1..(2 * MaxInFlight) : Driven(i) /\ Respond(i)

\* SpecServer: two callers use the routes of the Remote Project Store, and
\* the client of caller A syncs its messages
ServerInit ==
  /\ CoordStart
  /\ NoStores
  /\ ReconcileIdle
  /\ SyncIdle
  /\ driven = "files"
  /\ db = "open"
  /\ routes = {}
  /\ activationsLeft = 0
  /\ opsLeft = 0
  /\ projects = {}
  /\ chatRows = {}
  /\ fileRows = {}
  /\ wbRows = {}
  /\ handlers = <<>>
  /\ lastResp = NoResp
  /\ delivered = {}
  /\ nextPid = 1
  /\ clientSync = NoClientSync
  /\ srvOps = MaxServerOps
  /\ ExtraIdle

ServerKeys == Pids \cup UrlIds

\* the rest of the system is left alone
ServerOnly == UNCHANGED <<coordVars, recVars, syncVars, extraVars>>

ServerNext ==
  \/ \E c \in Callers, u \in UrlIds : CreateRequest(c, u) /\ ServerOnly
  \/ \E c \in Callers, p \in Pids :
       UpdateRequest(c, p, "renamed") /\ ServerOnly
  \/ \E c \in Callers, p \in Pids : DeleteRequest(c, p) /\ ServerOnly
  \/ \E c \in Callers, p \in Pids, batch \in MessageBatches :
       ApiWrite(c, "messages", p, batch) /\ ServerOnly
  \/ \E c \in Callers, p \in Pids, st \in MemStates("files") :
       ApiWrite(c, "files", p, st) /\ ServerOnly
  \/ \E c \in Callers, p \in Pids, st \in MemStates("workbench") :
       ApiWrite(c, "workbench", p, Body("workbench", st)) /\ ServerOnly
  \/ \E c \in Callers, key \in ServerKeys : LoadRequest(c, key) /\ ServerOnly
  \/ \E u \in UrlIds : ClientEnsure(u) /\ ServerOnly
  \/ \E batch \in MessageBatches : ClientPost(batch) /\ ServerOnly
  \/ \E i \in 1..MaxPending : Resume(i) /\ ServerOnly

SpecServer == ServerInit /\ [][ServerNext]_vars

FairSync ==
  /\ SpecSync
  /\ WF_vars(IntervalFires)
  /\ WF_vars(RequestArrives)
  /\ WF_vars(AnswerHandled)

----------------------------------------------------------------------------
(* SpecCalls: a new chat whose storeMessageHistory calls overlap            *)

\* the store is empty, or holds an older chat under the url-identifier the
\* artifact of the new chat asks for
CallsInit ==
  /\ CoordStart
  /\ ReconcileIdle
  /\ SyncIdle
  /\ SrvIdle
  /\ driven = "files"
  /\ db = "open"
  /\ webcontainerOk = TRUE
  /\ routes = {}
  /\ activationsLeft = 0
  /\ opsLeft = 0
  /\ localDb \in {[k \in ChatIds |-> NoRecord],
                  [k \in ChatIds |-> IF k = 1
                                     THEN Record(1, ArtifactUrlId, StoredLog)
                                     ELSE NoRecord]}
  /\ snapshots = [k \in ChatIds |-> NoSnapshot]
  /\ remote = [k \in ChatIds |-> NoProject]
  /\ calls = <<>>
  /\ syncedAs = {}
  /\ callOps = CallOps
  /\ BoxIdle
  /\ AutoIdle

CallsNext ==
  \/ \E artifact \in {NoId, ArtifactUrlId}, messages \in CallMessages :
       CallInvoke(artifact, messages)
  \/ ResumeGetUrlId
  \/ ResumeGetNextId
  \/ ResumeSetMessages

SpecCalls == CallsInit /\ [][CallsNext]_vars

----------------------------------------------------------------------------
(* SpecBox: one run of a sandbox populator over a FileMap                   *)

BoxInit ==
  /\ CoordStart
  /\ NoStores
  /\ ReconcileIdle
  /\ SyncIdle
  /\ SrvIdle
  /\ CallIdle
  /\ driven = "files"
  /\ db = "open"
  /\ routes = {}
  /\ activationsLeft = 0
  /\ opsLeft = 0
  /\ box \in {Populate(kind, files) : kind \in Populators, files \in EntryLists}
  /\ sandbox = NoSandbox
  /\ boxLog = <<>>
  /\ AutoIdle

BoxNext ==
  \/ \E ok \in BOOLEAN : MkdirFolder(ok)
  \/ \E ok \in BOOLEAN : MkdirParent(ok)
  \/ \E ok \in BOOLEAN : WriteFile(ok)
  \/ VerifyManifest

SpecBox == BoxInit /\ [][BoxNext]_vars

----------------------------------------------------------------------------
(* SpecAuto: a populator fills the sandbox, then the 1.5 s timer runs the   *)
(* auto-start routine of its path                                           *)

\* the FileMaps of a restored project: up to MaxAutoEntries entries
AutoInit ==
  /\ CoordStart
  /\ NoStores
  /\ ReconcileIdle
  /\ SyncIdle
  /\ SrvIdle
  /\ CallIdle
  /\ AutoIdle
  /\ driven = "files"
  /\ db = "open"
  /\ routes = {}
  /\ activationsLeft = 0
  /\ opsLeft = 0
  /\ box \in {Populate(kind, files) :
                kind \in Populators,
                files \in UNION {InjSeqs(Entries, n) : n \in 0..MaxAutoEntries}}
  /\ sandbox = NoSandbox
  /\ boxLog = <<>>

\* the timer of the routine fires once the populator has returned
AutoTimerFires ==
  /\ box.phase = "done"
  /\ auto.phase = "idle"
  /\ auto' = AutoStart(IF box.kind = "snapshot" THEN "autoStartApplication"
                       ELSE "autoStartProject")
  /\ UNCHANGED procs
  /\ AutoRest

AutoNext ==
  \/ BoxNext
  \/ AutoTimerFires
  \/ \E commands \in CommandSets, ok \in BOOLEAN : DetectCommands(commands, ok)
  \/ ReadManifest
  \/ \E ok \in BOOLEAN : SpawnSetup(ok)
  \/ \E code \in ExitCodes : SetupExits(code)
  \/ \E ok \in BOOLEAN : SpawnStart(ok)
  \/ \E code \in ExitCodes : StartExits(code)

SpecAuto == AutoInit /\ [][AutoNext]_vars

----------------------------------------------------------------------------
(* SpecHistory: restores of stored or remote chats, followed by             *)
(* storeMessageHistory calls of the restored session                        *)

HistoryInit ==
  /\ CoordStart
  /\ ReconcileIdle
  /\ SyncIdle
  /\ MoreIdle
  /\ driven = "files"
  /\ db = "open"
  /\ webcontainerOk = TRUE
  /\ routes = ChatIds \X {NoMsgId}
  /\ activationsLeft = StoreActivations
  /\ opsLeft = HistoryOps
  /\ localDb \in
       {[k \in ChatIds |-> IF k \in H THEN Record(k, k, StoredLog)
                            ELSE NoRecord] : H \in SUBSET ChatIds}
  /\ snapshots \in
       {f \in [ChatIds -> {NoSnapshot, StoredSnapshot(ManifestOnly)}] :
          \A k \in ChatIds : f[k].present => localDb[k].exists}
  /\ remote \in {[k \in ChatIds |-> IF k \in R
                                    THEN Project(k, RemoteLog, TRUE)
                                    ELSE NoProject] : R \in SUBSET ChatIds}

SpecHistory == HistoryInit /\ [][Next \/ HistoryNext]_vars

----------------------------------------------------------------------------
(* Properties of the Restore Coordinator                                    *)

\* a run of the effect
ActivationStep == activationsLeft' = activationsLeft - 1

\* a chain runs to its end
CompletionStep == Len(restores') < Len(restores)

\* C1: an activation that finds the restore lock held (a restore in flight
\* or inside the grace window) is dropped: it starts no local query and no
\* remote load and changes nothing the view shows; an activation that
\* starts a restore starts exactly one local query.
C1_LockedActivationDropped ==
  [][ActivationStep =>
       IF restoreInProgress
       THEN /\ restores' = restores
            /\ activeRestores' = activeRestores
            /\ lastEffect' = "dropped"
            /\ UNCHANGED <<ready, initialMessages, archivedMessages, chatId,
                           restoreInProgress>>
       ELSE (db = "open" /\ mixedId' # NoId) =>
              /\ restores' = Append(restores, NewRestore(mixedId', rewindTo'))
              /\ activeRestores' = activeRestores]_vars

\* two activations for one session, the second dropped while the restore of
\* the first is in flight
C1_Witness ==
  /\ lastEffect = "dropped"
  /\ activationsLeft = MaxActivations - 2
  /\ Len(restores) = 1
  /\ restores[1].id = mixedId
  /\ Cardinality(activeRestores) <= 1

\* C2: every restore that has run to its end, resolved or rejected, has set
\* Ready.
C2_SettledRestoreIsReady == lastDone.phase = "done" => ready

\* C3: at most one restore query sequence is in flight.
C3_AtMostOneRestoreInFlight == Len(restores) <= 1

\* C4: an activation carrying a session identifier different from the one
\* being restored finds the lock free and starts its restore.
C4_OtherSessionNotDropped ==
  [][(/\ ActivationStep
      /\ db = "open"
      /\ restores # <<>>
      /\ mixedId' # NoId
      /\ \A t \in DOMAIN restores : restores[t].id # mixedId')
       => Len(restores') = Len(restores) + 1]_vars

ErrorOutcomes == {"rejected", "sandbox-failed"}

GraceTimerStep ==
  /\ timers # <<>>
  /\ timers[1] = "grace"
  /\ timers' = Tail(timers)

GracePending == \E i \in DOMAIN timers : timers[i] = "grace"

C6_RemoteFailureSurfaced ==
  (lastDone.phase = "done" /\ lastDone.answer \in {"httperror", "netfail"})
    => /\ "restore-failed" \in toasts
       /\ lastDone.outcome # "home"

\* C7: the coordinator redirects home only on a not-found answer of the
\* remote load for a chat without local messages.
C7_RedirectOnlyWhenAbsent ==
  (lastDone.phase = "done" /\ lastDone.outcome = "home")
    => lastDone.answer = "notfound"

\* a chain ends having adopted the remote project
RemoteAdoptStep ==
  /\ CompletionStep
  /\ lastDone'.path = "remote"
  /\ lastDone'.outcome = "restored"

WriteBackAttempted == lastDone'.writeBack \in {"written", "failed"}

\* the local records the write-back could meet, in the store before the step
SameIdRecords == {k \in ChatIds : k = lastDone'.id /\ localDb[k].exists}
SameUrlIdRecords ==
  {k \in ChatIds : localDb[k].exists /\ localDb[k].urlId = remote[lastDone'.id].url_id}
FoundRecords ==
  IF SameIdRecords # {} THEN SameIdRecords ELSE SameUrlIdRecords

----------------------------------------------------------------------------
(* Properties of the Snapshot Reconciler                                    *)

\* the 1-based position of the message with this identifier, 0 when absent
PositionOf(messages, id) ==
  IF \E i \in DOMAIN messages : messages[i].id = id
  THEN CHOOSE i \in DOMAIN messages : messages[i].id = id
  ELSE 0

IsSynthetic(m) == "no-store" \in m.annotations

\* C9: when the message the snapshot was taken at sits at an index > 0 and
\* is the rewind target, no snapshot applies: nothing is archived, the
\* visible messages are the log up to and including the target, and none of
\* them is synthetic.
C9_RewindToSnapshotOverride ==
  LET m == reconcileIn.messages
      at == PositionOf(m, reconcileIn.snapshot.chatIndex)
  IN (reconcileOut.done /\ at > 1 /\ m[at].id = reconcileIn.rewindId)
       => /\ StartingIdx(m, reconcileIn.snapshot, reconcileIn.rewindId) = -1
          /\ reconcileOut.archivedMessages = <<>>
          /\ reconcileOut.initialMessages = SubSeq(m, 1, at)
          /\ \A i \in DOMAIN reconcileOut.initialMessages :
               ~IsSynthetic(reconcileOut.initialMessages[i])

\* the log [m0, m1, m2, m3] with the snapshot taken at m1 and rewound to m1
C9_Witness ==
  /\ reconcileOut.done
  /\ Len(reconcileIn.messages) = 4
  /\ reconcileIn.snapshot.chatIndex = reconcileIn.messages[2].id
  /\ reconcileIn.rewindId = reconcileIn.messages[2].id
  /\ DOMAIN reconcileIn.snapshot.files # {}
  /\ reconcileOut.initialMessages = SubSeq(reconcileIn.messages, 1, 2)

\* C10: whenever no snapshot applies (the snapshot message is absent from the
\* log, at or after endingIdx, or the rewind target itself at an index > 0),
\* the visible messages are L[0..endingIdx) and nothing is archived.
C10_FullHistoryIdentity ==
  LET m == reconcileIn.messages
      rw == reconcileIn.rewindId
      at == PositionOf(m, reconcileIn.snapshot.chatIndex)
      end == IF rw = NoMsgId THEN Len(m) ELSE PositionOf(m, rw)
      noSnapshotApplies == at = 0 \/ at > end \/ (at > 1 /\ m[at].id = rw)
  IN reconcileOut.done =>
       /\ noSnapshotApplies <=> (StartingIdx(m, reconcileIn.snapshot, rw) = -1)
       /\ noSnapshotApplies =>
            /\ reconcileOut.initialMessages = SubSeq(m, 1, end)
            /\ reconcileOut.archivedMessages = <<>>

\* the snapshot was taken after the rewind target: the history up to the
\* target is shown whole
C10_Witness ==
  /\ reconcileOut.done
  /\ Len(reconcileIn.messages) = 4
  /\ reconcileIn.rewindId = reconcileIn.messages[2].id
  /\ reconcileIn.snapshot.chatIndex = reconcileIn.messages[3].id
  /\ reconcileOut.initialMessages = SubSeq(reconcileIn.messages, 1, 2)
  /\ reconcileOut.archivedMessages = <<>>

----------------------------------------------------------------------------
(* Properties of the Snapshot Reconciler, continued                         *)

\* the messages of a list that the reconciler did not synthesize
RECURSIVE WithoutSynthetic(_)
WithoutSynthetic(s) ==
  IF s = <<>> THEN <<>>
  ELSE IF IsSynthetic(Head(s)) THEN WithoutSynthetic(Tail(s))
       ELSE <<Head(s)>> \o WithoutSynthetic(Tail(s))

NoDuplicateIds(s) == \A i, j \in DOMAIN s : s[i].id = s[j].id => i = j

\* C11: without a rewind target, the archived messages followed by the
\* visible messages that are not synthesized are the stored log itself, in
\* order and without duplicates, whatever the log and the snapshot.
C11_ArchivePlusVisibleIsLog ==
  (reconcileOut.done /\ reconcileIn.rewindId = NoMsgId)
    => /\ reconcileOut.archivedMessages
            \o WithoutSynthetic(reconcileOut.initialMessages)
          = reconcileIn.messages
       /\ NoDuplicateIds(reconcileOut.archivedMessages
                           \o WithoutSynthetic(reconcileOut.initialMessages))

\* a log of four messages cut by a snapshot taken at its second message
C11_Witness ==
  /\ reconcileOut.done
  /\ reconcileIn.rewindId = NoMsgId
  /\ Len(reconcileIn.messages) = 4
  /\ Len(reconcileOut.archivedMessages) = 2
  /\ Len(reconcileOut.initialMessages) = 4
  /\ IsSynthetic(reconcileOut.initialMessages[1])

\* C12: when a snapshot applies at an index > 0, the visible messages are a
\* user message tagged no-store and hidden, an assistant message tagged
\* no-store that embeds exactly the file entries of the snapshot, and then
\* log[startingIdx+1 .. endingIdx) in order.
C12_SnapshotReplaySynthesis ==
  LET m == reconcileIn.messages
      rw == reconcileIn.rewindId
      at == PositionOf(m, reconcileIn.snapshot.chatIndex)
      end == IF rw = NoMsgId THEN Len(m) ELSE PositionOf(m, rw)
      out == reconcileOut.initialMessages
  IN (reconcileOut.done /\ reconcileIn.snapshot.present
        /\ at > 1 /\ at <= end /\ m[at].id # rw)
       => /\ StartingIdx(m, reconcileIn.snapshot, rw) = at - 1
          /\ Len(out) = 2 + (end - at)
          /\ out[1].role = "user"
          /\ {"no-store", "hidden"} \subseteq out[1].annotations
          /\ out[2].role = "assistant"
          /\ "no-store" \in out[2].annotations
          /\ \A p \in DOMAIN reconcileIn.snapshot.files :
               reconcileIn.snapshot.files[p] = "file" <=> p \in out[2].files
          /\ SubSeq(out, 3, Len(out)) = SubSeq(m, at + 1, end)

\* the log [m0, m1, m2] with a snapshot holding a file taken at m1, rewound
\* to m2
C12_Witness ==
  /\ reconcileOut.done
  /\ Len(reconcileIn.messages) = 3
  /\ reconcileIn.snapshot.present
  /\ reconcileIn.snapshot.chatIndex = reconcileIn.messages[2].id
  /\ reconcileIn.rewindId = reconcileIn.messages[3].id
  /\ "package.json" \in DOMAIN reconcileIn.snapshot.files
  /\ reconcileIn.snapshot.files["package.json"] = "file"
  /\ Len(reconcileOut.initialMessages) = 3
  /\ reconcileOut.initialMessages[3] = reconcileIn.messages[3]

SameButId(a, b) ==
  /\ a.role = b.role
  /\ a.content = b.content
  /\ a.annotations = b.annotations
  /\ a.files = b.files

----------------------------------------------------------------------------
(* Properties of storeMessageHistory and of the sync agents                 *)

\* C14: whatever restores and storeMessageHistory calls took place, no
\* record of the Local History Store holds a message tagged no-store and no
\* POST of messages to the Remote Project Store carried one.
C14_NoStoreNeverPersisted ==
  /\ \A k \in DOMAIN localDb :
       \A i \in DOMAIN localDb[k].messages : NotNoStore(localDb[k].messages[i])
  /\ \A m \in posted : "no-store" \notin m.annotations

\* a session restored from a snapshot (its visible messages begin with the
\* two synthesized ones) stored and posted the message the user added
C14_Witness ==
  /\ Len(initialMessages) >= 2
  /\ IsSynthetic(initialMessages[1])
  /\ IsSynthetic(initialMessages[2])
  /\ \E m \in posted : m.id = NewMsgId
  /\ \E k \in DOMAIN localDb :
       \E i \in DOMAIN localDb[k].messages : localDb[k].messages[i].id = NewMsgId

\* the Remote Project Store holds state st of agent a for project p
RemoteHolds(a, p, st) ==
  /\ p \in ProjectIds
  /\ IF a = "files"
     THEN RemoteRows(a, p) = FilesToUpsert(st)
     ELSE remoteState[a][p] # <<>> /\ RemoteRows(a, p) = Body(a, st)

\* the step is a run of syncFiles / syncState of agent a from its interval
SyncStep(a) == \E h \in intervals[a] : Tick(a, h, TRUE)

\* the step puts one more request on its way
WritesNow == Len(net') > Len(net)

\* C15 (as stated): of two consecutive runs of syncFiles / syncState of an
\* agent with the in-memory state unchanged between them, exactly one
\* performs a network write.
C15_TwoSyncsOneWrite ==
  [][\A a \in Agents :
       (SyncStep(a) /\ lastSync[a].invoked /\ ~lastSync[a].dirty)
         => (lastSync[a].wrote # WritesNow)]_vars

\* C15 (amended): when the first of the two runs wrote, with no other fetch
\* of the agent pending, and its write was answered OK before the second
\* run, the second run finds the state unchanged and writes nothing: the
\* two runs perform exactly one network write.
C15_SecondSyncSuppressed ==
  [][\A a \in Agents :
       (/\ SyncStep(a)
        /\ lastSync[a].invoked /\ ~lastSync[a].dirty
        /\ lastSync[a].wrote /\ lastSync[a].alone /\ lastSync[a].status = "ok")
         => /\ ~WritesNow
            /\ lastCall' = Call("tick", a, "unchanged")]_vars

\* an interval sync found the state unchanged after a write of that state
\* was answered OK and stored
C15_Witness ==
  /\ lastCall = Call("tick", driven, "unchanged")
  /\ lastSync[driven].invoked /\ ~lastSync[driven].wrote
  /\ agent[driven].lastSynced = Serialize(driven, mem[driven])
  /\ InFlight(net, driven) = 0
  /\ RemoteHolds(driven, agent[driven].projectId, mem[driven])

\* C16: once stop() has returned and until start is called again, no
\* interval of the agent runs a sync, whatever calls of start came before;
\* and stop() on a stopped agent changes nothing of the agent.
C16_NoIntervalSyncAfterStop ==
  [][\A a \in Agents :
       /\ (\E h \in intervals[a], g \in BOOLEAN : Tick(a, h, g))
            => agent[a].syncInterval # NoTimer
       /\ (Stop(a) /\ agent[a].syncInterval = NoTimer)
            => agent' = agent /\ intervals' = intervals]_vars

\* C17: each agent is started at most once per project identifier and never
\* has more than one interval running.
C17_StartedOncePerProject ==
  \A a \in Agents :
    /\ \A p \in ProjectIds : started[a][p] <= 1
    /\ Cardinality(intervals[a]) <= 1

\* the in-memory state stays as it is, no write fails, nothing is pending in
\* syncMessagesToSupabase, and the agent is bound with its interval running
Settled(a) ==
  /\ opsLeft = 0
  /\ msgSync.stage = "idle"
  /\ agent[a].projectId # NoProjectId
  /\ intervals[a] # {}

\* C18: once the in-memory state has stopped changing and writes succeed,
\* the Remote Project Store eventually holds, for good, the in-memory state
\* of the bound project.
C18_RemoteEventuallyCurrent ==
  [](Settled(driven)
       => <>[]RemoteHolds(driven, agent[driven].projectId, mem[driven]))

\* a fetch of agent a is on its way or waits for its answer to be handled
FetchPending(a) ==
  \E i \in DOMAIN net : net[i].agent = a /\ net[i].kind = "fetch"

\* C19: syncNow does not wait for a pending interval sync and shares its
\* comparison value without owning it: called while a fetch of the agent is
\* pending and the state differs from the last synced serialization, it
\* queues its own write and leaves the last synced serialization alone.
\* The interleaving that loses an update is C19_Witness.
C19_SyncNowNotExcluded ==
  [][\A a \in Agents :
       (/\ SyncNow(a, TRUE, TRUE)
        /\ Bound(agent[a])
        /\ FetchPending(a)
        /\ agent[a].lastSynced # Serialize(a, mem[a]))
         => /\ WritesNow
            /\ net'[Len(net')].kind = "beacon"
            /\ agent' = agent]_vars

\* the lost update: the beacon of syncNow arrived after the write of a
\* later interval sync; the agent finds the state unchanged against the
\* last synced serialization, nothing is pending, and the Remote Project
\* Store holds the older state the beacon carried
C19_Witness ==
  /\ lastCall = Call("tick", driven, "unchanged")
  /\ Bound(agent[driven])
  /\ agent[driven].lastSynced = Serialize(driven, mem[driven])
  /\ InFlight(net, driven) = 0
  /\ Cardinality(intervals[driven]) = 1
  /\ remoteState[driven][agent[driven].projectId] # <<>>
  /\ remoteState[driven][agent[driven].projectId][2] = "beacon"
  /\ ~RemoteHolds(driven, agent[driven].projectId, mem[driven])

\* C20: a failed sync is caught and leaves the last synced serialization as
\* it was: a failed fetch and a throwing getter change nothing of the agent,
\* the throwing getter ends the call with the logged failure, and the next
\* interval sync with the same state writes again.
C20_FailedSyncSwallowed ==
  [][\A a \in Agents :
       /\ \A i \in DOMAIN net :
            (net[i].agent = a /\ \E outcome \in {"error", "lost"} : Fail(i, outcome))
              => agent' = agent
       /\ (\E h \in intervals[a] : Tick(a, h, FALSE))
            => agent' = agent /\ ~WritesNow /\ lastCall' = Call("tick", a, "failed")
       /\ (\E q \in BOOLEAN : SyncNow(a, FALSE, q))
            => agent' = agent /\ ~WritesNow /\ lastCall' = Call("syncNow", a, "failed")
       /\ (/\ SyncStep(a)
           /\ lastSync[a].invoked /\ ~lastSync[a].dirty /\ lastSync[a].alone
           /\ lastSync[a].status = "failed")
            => WritesNow /\ lastCall' = Call("tick", a, "sent")]_vars

\* the write of the initial sync failed, and the next interval sync wrote
\* the same state again
C20_Witness ==
  /\ opsLeft < MaxSyncOps
  /\ lastCall = Call("tick", driven, "sent")
  /\ agent[driven].lastSynced = NeverSynced
  /\ lastSync[driven].wrote /\ lastSync[driven].alone
  /\ InFlight(net, driven) = 1
  /\ \A p \in ProjectIds : remoteState[driven][p] = <<>>

----------------------------------------------------------------------------
(* Remote Project Store: creation, ownership, repeated delivery, references *)

\* handler i is a create handler whose project, if it found one, is still
\* there
CreateResumes(i) ==
  /\ i \in DOMAIN handlers
  /\ handlers[i].kind = "create"
  /\ handlers[i].found # NoPid => ProjectExists(handlers[i].found)
  /\ Resume(i)

OwnRows(c, u) == {r \in projects : r.clerk_user_id = c /\ r.url_id = u}

\* C21: a create request of a caller for a url_id answers the caller's
\* project of that url_id when there is one (existed = true, same id) and
\* creates it otherwise (existed = false); afterwards the caller has exactly
\* one project row of that url_id.
C21_CreateIdempotentPerOwner ==
  [][\A i \in 1..MaxPending :
       CreateResumes(i) =>
         LET c == handlers[i].caller
             u == handlers[i].target
             before == ExistingProject(c, u)
         IN /\ lastResp'.status = 200
            /\ lastResp'.existed = (before # NoPid)
            /\ before # NoPid => lastResp'.project = before
            /\ Cardinality({r \in projects' : r.clerk_user_id = c
                                              /\ r.url_id = u}) = 1]_vars

Tables == <<projects, chatRows, fileRows, wbRows>>

\* a mutating request of caller c that names project p
MutatesProject(c, p) ==
  \/ UpdateRequest(c, p, "renamed")
  \/ DeleteRequest(c, p)
  \/ \E batch \in MessageBatches : ApiWrite(c, "messages", p, batch)
  \/ \E st \in MemStates("files") : ApiWrite(c, "files", p, st)
  \/ \E st \in MemStates("workbench") :
       ApiWrite(c, "workbench", p, Body("workbench", st))

\* C22: a mutating request that names a project the caller does not own is
\* answered not-found and changes no row.
C22_NotOwnedRejectedNotFound ==
  [][\A c \in Callers, p \in Pids :
       (~OwnedProject(c, p) /\ MutatesProject(c, p))
         => lastResp'.status = 404 /\ Tables' = Tables]_vars

\* the projects of the other callers
Foreign(c) == {r.id : r \in {q \in projects : q.clerk_user_id # c}}

\* a step of a request of caller c
StepBy(c) ==
  \/ \E u \in UrlIds : CreateRequest(c, u)
  \/ \E p \in Pids : MutatesProject(c, p)
  \/ \E key \in ServerKeys : LoadRequest(c, key)
  \/ c = "A" /\ \E u \in UrlIds : ClientEnsure(u)
  \/ c = "A" /\ \E batch \in MessageBatches : ClientPost(batch)
  \/ \E i \in DOMAIN handlers : handlers[i].caller = c /\ Resume(i)

\* key names a project of another caller, by id or by url_id
ForeignKey(c, key) ==
  \E r \in projects : r.clerk_user_id # c /\ (r.id = key \/ r.url_id = key)

\* C23: no step of a request of caller c changes a project row, message,
\* file or workbench row of a project of another caller, no response to c
\* carries such a project, and a load of another caller's project by id or
\* url_id answers NotFound.
C23_OwnershipIsolation ==
  [][\A c \in Callers :
       StepBy(c) =>
         /\ {r \in projects' : r.id \in Foreign(c)}
              = {r \in projects : r.id \in Foreign(c)}
         /\ {r \in chatRows' : r.project_id \in Foreign(c)}
              = {r \in chatRows : r.project_id \in Foreign(c)}
         /\ {r \in fileRows' : r.project_id \in Foreign(c)}
              = {r \in fileRows : r.project_id \in Foreign(c)}
         /\ {r \in wbRows' : r.project_id \in Foreign(c)}
              = {r \in wbRows : r.project_id \in Foreign(c)}
         /\ lastResp' # lastResp => lastResp'.project \notin Foreign(c)
         /\ \A key \in ServerKeys :
              (ForeignKey(c, key) /\ LoadRequest(c, key))
                => lastResp'.status = 404 /\ lastResp'.project = NoPid]_vars

\* caller A asked to load the project of caller B, which holds messages, by
\* its id or its url_id and was answered NotFound
C23_Witness ==
  /\ lastResp.caller = "A" /\ lastResp.kind = "load"
  /\ lastResp.status = 404
  /\ \E r \in projects :
       /\ r.clerk_user_id = "B"
       /\ r.id = lastResp.target \/ r.url_id = lastResp.target
       /\ \E m \in chatRows : m.project_id = r.id

\* handler i is a write handler whose rows the store already holds from an
\* earlier delivery of the same request
Redelivers(i) ==
  /\ i \in DOMAIN handlers
  /\ handlers[i].kind \in {"messages", "files", "workbench"}
  /\ <<handlers[i].kind, handlers[i].target, handlers[i].payload>> \in delivered
  /\ LET h == handlers[i]
     IN CASE h.kind = "messages" ->
               MessagesToSave(h.target, h.payload) \subseteq chatRows
          [] h.kind = "files" ->
               FileRowsToUpsert(h.target, h.payload) \subseteq fileRows
          [] h.kind = "workbench" ->
               WorkbenchRow(h.target, h.payload) \in wbRows
  /\ Resume(i)

OneRowPerKey ==
  /\ \A r, q \in chatRows :
       (r.project_id = q.project_id /\ r.message_id = q.message_id) => r = q
  /\ \A r, q \in fileRows :
       (r.project_id = q.project_id /\ r.file_path = q.file_path) => r = q
  /\ \A r, q \in wbRows : r.project_id = q.project_id => r = q

C25_RowsReferenceProjects ==
  /\ \A r \in chatRows \cup fileRows \cup wbRows :
       \E q \in projects : q.id = r.project_id
  /\ clientSync.stage = "post" => clientSync.project \in 1..(nextPid - 1)
  /\ \A i \in DOMAIN handlers :
       (handlers[i].client /\ handlers[i].kind = "messages")
         => handlers[i].target \in 1..(nextPid - 1)

\* the project was deleted while a write to it was suspended, and the write
\* was refused
C25_Witness ==
  /\ lastResp.kind \in {"messages", "files", "workbench"}
  /\ lastResp.status = 500
  /\ ~\E q \in projects : q.id = lastResp.target

----------------------------------------------------------------------------
(* Properties of overlapping storeMessageHistory calls                      *)

\* the url-identifier of the session and of every stored record stays what
\* it is once it is set
UrlIdKept ==
  /\ urlId # NoId => urlId' = urlId
  /\ \A k \in ChatIds :
       localDb[k].exists /\ localDb[k].urlId # NoId
         => localDb'[k].urlId = localDb[k].urlId

\* C26: once the url-identifier of a session is assigned, no later
\* storeMessageHistory call, overlapping calls included, assigns another
\* one or persists the session under another one.
C26_UrlIdImmutable == [][UrlIdKept]_vars

----------------------------------------------------------------------------
(* Properties of the auto-start                                             *)

\* the pending timers that run the auto-start routine
AutoStartsPending(q) == Cardinality({i \in DOMAIN q : q[i] = "auto"})

\* the chain of one activation ends on the local path with its files in
\* the sandbox
LocalChainEnds ==
  /\ Len(restores') < Len(restores)
  /\ lastDone'.path = "local"
  /\ lastDone'.outcome = "restored"

\* the restore of one project, started by one activation, returns
RemoteRestoreReturns ==
  /\ activeRestores' # activeRestores
  /\ activeRestores' \subseteq activeRestores
  /\ Cardinality(activeRestores \ activeRestores') = 1

\* every pending restore of a project was started by exactly one pending
\* chain
OneStarterPerRestore ==
  \A p \in activeRestores :
    Cardinality({t \in DOMAIN restores :
                   /\ restores[t].id = p
                   /\ restores[t].phase = "remote"
                   /\ restores[t].startedLoad}) = 1

AutoStartOncePerActivation ==
  /\ OneStarterPerRestore
  /\ AutoStartsPending(timers') <= AutoStartsPending(timers) + 1
  /\ AutoStartsPending(timers') > AutoStartsPending(timers)
       => LocalChainEnds \/ RemoteRestoreReturns
  /\ AutoStartsPending(timers') < AutoStartsPending(timers)
       => /\ AutoStartsPending(timers') = AutoStartsPending(timers) - 1
          /\ UNCHANGED <<restores, activeRestores, autoStartInProgress>>

\* C27: for one activation the auto-start routine is scheduled and run at
\* most once: a step schedules at most one auto-start, and only the step
\* in which the chain of an activation ends its local restore or the remote
\* restore an activation started returns; a scheduled auto-start runs once.
C27_AutoStartOncePerActivation == [][AutoStartOncePerActivation]_vars

\* an auto-start is pending after a remote restore, in a behaviour in which
\* the local path scheduled one too
C27_Witness ==
  /\ AutoStartsPending(timers) >= 1
  /\ "starting" \in toasts
  /\ lastDone.path = "remote"
  /\ lastDone.data

----------------------------------------------------------------------------
(* Properties of the sandbox populators                                     *)

\* the calls of fs.writeFile so far
Writes == {j \in DOMAIN boxLog : boxLog[j].op = "writeFile"}

\* the entries of the FileMap that name a folder, or a file, of the sandbox
FolderEntries ==
  {e \in DOMAIN box.files :
     /\ box.files[e].type = "folder"
     /\ RelativePath(box.kind, box.files[e].key) # EmptyPath}
FileEntries ==
  {e \in DOMAIN box.files :
     /\ box.files[e].type = "file"
     /\ RelativePath(box.kind, box.files[e].key) # EmptyPath}

\* mkdir was called for folder entry e before call j
FolderTriedBefore(e, j) ==
  \E i \in 1..(j - 1) :
    /\ boxLog[i].op = "mkdir"
    /\ boxLog[i].loop = "folders"
    /\ boxLog[i].entry = e
    /\ boxLog[i].path = RelativePath(box.kind, box.files[e].key)

\* the call before call j made the directory of the file call j writes
ParentMadeBefore(j) ==
  /\ j > 1
  /\ boxLog[j - 1].op = "mkdir"
  /\ boxLog[j - 1].ok
  /\ boxLog[j - 1].entry = boxLog[j].entry
  /\ boxLog[j - 1].path = DirPath(boxLog[j].path)

\* C28: in both populators every folder entry has had its mkdir before any
\* file is written, no folder entry is created after a write, and a file
\* in a directory is written right after the mkdir of that directory.
C28_FoldersBeforeFiles ==
  \A j \in Writes :
    /\ \A e \in FolderEntries : FolderTriedBefore(e, j)
    /\ \A i \in DOMAIN boxLog : boxLog[i].loop = "folders" => i < j
    /\ DirPath(boxLog[j].path) # <<>> => ParentMadeBefore(j)

\* a FileMap that lists a file before a folder has been populated, and a
\* file in a directory was written
C28_Witness ==
  /\ box.phase = "done"
  /\ \E f \in FileEntries, e \in FolderEntries : f < e
  /\ \E j \in Writes : boxLog[j].ok /\ DirPath(boxLog[j].path) # <<>>

\* the entries one of whose calls failed
FailedEntries == {boxLog[i].entry : i \in {k \in DOMAIN boxLog : ~boxLog[k].ok}}

\* file entry e has been written
Written(e) ==
  /\ RelativePath(box.kind, box.files[e].key) \in sandbox.files
  /\ \E j \in Writes : boxLog[j].entry = e /\ boxLog[j].ok

\* C29: whichever calls of mkdir and writeFile fail, the populator runs to
\* its end without throwing, and at its end every file entry none of whose
\* own calls failed is written.
C29_FailureIsolation ==
  /\ box.phase # "threw"
  /\ box.phase = "done"
       => /\ \A e \in FileEntries \ FailedEntries : Written(e)
          /\ box.count = Cardinality(FileEntries \ FailedEntries)

\* a populator has ended after a failed call and has written a file entry
\* that comes after the failed one
C29_Witness ==
  /\ box.phase = "done"
  /\ \E i \in DOMAIN boxLog :
       /\ ~boxLog[i].ok
       /\ \E e \in FileEntries : e > boxLog[i].entry /\ Written(e)

----------------------------------------------------------------------------
(* Properties of the auto-start routine                                     *)

Spawned(p) == p.status \in {"running", "exited"}
Tried(p) == p.status # "none"

\* C30: no command is spawned when package.json cannot be read in the
\* sandbox; the start command is spawned only after the setup command, if
\* there is one, has exited or failed to spawn; it is spawned whatever the
\* exit code of setup; and the routine has returned as soon as the start
\* command is spawned, without waiting for its exit.
C30_AutoStartOrdering ==
  /\ Manifest \notin sandbox.files => ~Tried(procs.setup) /\ ~Tried(procs.start)
  /\ Tried(procs.start) /\ auto.commands.setupCommand
       => procs.setup.status \in {"exited", "spawn-failed"}
  /\ auto.phase = "returned" /\ auto.commands.startCommand
       /\ Manifest \in sandbox.files => Tried(procs.start)
  /\ Tried(procs.start) => auto.phase = "returned"

\* the routine has returned while the start command runs, after a setup
\* command that exited with a failure
C30_Witness ==
  /\ auto.phase = "returned"
  /\ procs.setup = [status |-> "exited", code |-> 1]
  /\ procs.start.status = "running"

----------------------------------------------------------------------------
(* The snapshot on the first message                                        *)

\* the snapshot names the first message of the log and the window does not
\* end before it
SnapshotOnFirst ==
  /\ SnapshotIndex(reconcileIn.messages, reconcileIn.snapshot) = 0
  /\ 0 < EndingIdx(reconcileIn.messages, reconcileIn.rewindId)

\* C31: when the snapshot references the first message of the log and that
\* message is before endingIdx, the first message alone is archived, the
\* visible messages are log[1 .. endingIdx), and none of them is a
\* synthesized restore message.
C31_SnapshotOnFirstMessage ==
  reconcileOut.done /\ SnapshotOnFirst
    => /\ reconcileOut.archivedMessages = <<reconcileIn.messages[1]>>
       /\ reconcileOut.initialMessages =
            Slice(reconcileIn.messages, 1,
                  EndingIdx(reconcileIn.messages, reconcileIn.rewindId))
       /\ \A i \in DOMAIN reconcileOut.initialMessages :
            "no-store" \notin reconcileOut.initialMessages[i].annotations

\* the reconciler has run on a log of several messages whose first one the
\* snapshot names, and messages after it are visible
C31_Witness ==
  /\ reconcileOut.done
  /\ SnapshotOnFirst
  /\ Len(reconcileIn.messages) > 1
  /\ Len(reconcileOut.initialMessages) > 0
  /\ DOMAIN reconcileIn.snapshot.files # {}

----------------------------------------------------------------------------
(* Deduplication of restoreProject                                          *)

\* the chains awaiting restoreProject(p)
Awaiting(p) ==
  {t \in DOMAIN restores : restores[t].phase = "remote" /\ restores[t].id = p}

\* the chains whose call of restoreProject(p) issued the load
Loading(p) == {t \in Awaiting(p) : restores[t].startedLoad}

\* a chain calls restoreProject in this step
CallsRestoreProject(t) ==
  /\ t \in DOMAIN restores
  /\ restores[t].phase = "query"
  /\ Len(restores') = Len(restores)
  /\ restores'[t].phase = "remote"

RestoreDeduplicated ==
  /\ \A p \in ChatIds :
       /\ Awaiting(p) # {} <=> p \in activeRestores
       /\ p \in activeRestores => Cardinality(Loading(p)) = 1
  /\ \A t \in 1..(MaxActivations + 1) :
       CallsRestoreProject(t)
         => /\ restores'[t].startedLoad = (restores[t].id \notin activeRestores)
            /\ restores'[t].id \in activeRestores'
  /\ \A p \in activeRestores \ activeRestores' :
       /\ \A t \in Awaiting(p) : restores'[t].phase = "adopt"
       /\ \A t, u \in Awaiting(p) :
            /\ restores'[t].answer = restores'[u].answer
            /\ restores'[t].data = restores'[u].data

\* C32: while a restoreProject(p) is in flight every further call for p
\* awaits the same result and issues no load of its own; when the restore
\* settles, with data or with null, its tracking entry goes and every
\* waiting call gets the one result, so that a later call loads afresh.
C32_RestoreDeduplicated == [][RestoreDeduplicated]_vars

\* two chains have got the result of one load of the same project
C32_Witness ==
  \E t, u \in DOMAIN restores :
    /\ t # u
    /\ restores[t].id = restores[u].id
    /\ restores[t].phase = "adopt"
    /\ restores[u].phase = "adopt"
    /\ restores[t].startedLoad
    /\ ~restores[u].startedLoad

----------------------------------------------------------------------------
(* What is displayed belongs to the route                                   *)

\* C33: whenever no restore is in flight and the view is Ready, the
\* messages on display were restored for the session identifier and the
\* rewind target activated last: no activation for another session or
\* rewind target is dropped while the earlier messages stay on display.
C33_DisplayedBelongsToRoute ==
  restores = <<>> /\ ready /\ mixedId # NoId /\ initialMessages # <<>>
    => /\ lastDone.id = mixedId
       /\ lastDone.rewindId = rewindTo

----------------------------------------------------------------------------
(* One remote project per session                                           *)

\* C34: all storeMessageHistory calls of one session call ensureProject
\* with one and the same url_id, so that the session has one remote
\* project.
C34_OneUrlIdPerSession == Cardinality(syncedAs) <= 1

----------------------------------------------------------------------------
(* Change detection after a change of project                               *)

\* start binds agent a, bound to a project before, to another project
Rebinds(a) ==
  /\ agent[a].projectId # NoProjectId
  /\ agent'[a].projectId # NoProjectId
  /\ agent'[a].projectId # agent[a].projectId

\* the initial sync of start puts the current state on its way to the
\* project bound now
WritesToBound(a) ==
  \E i \in DOMAIN net' :
    /\ net'[i].agent = a
    /\ net'[i].latest
    /\ net'[i].project = agent'[a].projectId
    /\ net'[i].json = Serialize(a, mem[a])

\* C35: change detection is relative to the bound project: when start binds
\* an agent that synced to one project to another project, the first sync
\* writes the current state to the new project, also when its serialization
\* equals the one last synced to the old project.
C35_FirstSyncAfterRebindWrites ==
  [][\A a \in Agents : Rebinds(a) => WritesToBound(a)]_vars

----------------------------------------------------------------------------
(* File sync and project load                                               *)

\* the answer to the latest request i of the files agent is handled as a
\* success, no other request of the agent is on its way, and the local
\* FileMap is still the one that was sent
FileSyncSucceeds(i) ==
  /\ i \in DOMAIN net
  /\ net[i].agent = "files"
  /\ net[i].latest
  /\ InFlight(net, "files") = 1
  /\ mem.files = net[i].body.files
  /\ Respond(i)

\* C36: after a successful file sync of FileMap F a full project load
\* returns exactly the file entries of F: the same set of paths, so that a
\* file deleted locally is no longer returned.
C36_LoadReturnsSyncedFiles ==
  [][\A i \in 1..(2 * MaxInFlight) :
       FileSyncSucceeds(i)
         => LoadFileMap(RemoteRows("files", net[i].project))
              = FilesToUpsert(net[i].body.files)]_vars

----------------------------------------------------------------------------
(* SpecRewind: chat 1 is opened with or without a rewind target, restored   *)
(* and stored again                                                         *)

\* the snapshots chat 1 can hold for its stored log
RewindSnapshots ==
  {NoSnapshot} \cup
  {[present |-> TRUE, chatIndex |-> c, files |-> f, summary |-> FALSE] :
     c \in 1..Len(StoredLog), f \in {EmptyFileMap, ManifestOnly}}

\* chat 1 is held locally with its log, or not at all; the Remote Project
\* Store holds nothing of it or the same log
RewindInit ==
  /\ CoordStart
  /\ ReconcileIdle
  /\ SyncIdle
  /\ MoreIdle
  /\ driven = "files"
  /\ db = "open"
  /\ webcontainerOk = TRUE
  /\ routes = {1} \X (0..Len(StoredLog))
  /\ activationsLeft = StoreActivations
  /\ opsLeft = HistoryOps
  /\ localDb \in {[k \in ChatIds |-> NoRecord],
                  [k \in ChatIds |-> IF k = 1 THEN Record(1, 1, StoredLog)
                                     ELSE NoRecord]}
  /\ snapshots \in {[k \in ChatIds |-> IF k = 1 THEN sn ELSE NoSnapshot] :
                      sn \in IF localDb[1].exists THEN RewindSnapshots
                             ELSE {NoSnapshot}}
  /\ remote \in {[k \in ChatIds |-> NoProject],
                 [k \in ChatIds |-> IF k = 1 THEN Project(1, StoredLog, FALSE)
                                    ELSE NoProject]}

SpecRewind == RewindInit /\ [][Next \/ HistoryNext]_vars

\* the chat_messages rows of project p before the POST in flight is served
RemoteMessages(p) ==
  IF p \in DOMAIN remote THEN MessagesToSave(p, remote[p].messages) ELSE {}

\* and once the messages route has served it
RemoteMessagesAfterPost ==
  UpsertMessages(RemoteMessages(msgSync.key),
                 MessagesToSave(msgSync.key, SyncFilter(msgSync.messages)))

\* the POST of a session restored from the local store with a rewind
\* target, for a project the store holds, is answered OK
RewindSyncSucceeds ==
  /\ msgSync.stage = "post"
  /\ lastDone.rewindId # NoMsgId
  /\ lastDone.path = "local"
  /\ initialMessages # <<>>
  /\ RemoteMessages(msgSync.key) # {}
  /\ MessagePostReturn(TRUE)

\* C37: after a rewind followed by a successful message sync the messages
\* held remotely for the project are the non-no-store messages of the
\* current local log: the messages truncated by the rewind are gone.
C37_RemoteFollowsRewind ==
  [][RewindSyncSucceeds
       => {r.message_id : r \in RemoteMessagesAfterPost}
            = {m.id : m \in Range(SyncFilter(localDb[chatId].messages))}]_vars

----------------------------------------------------------------------------
(* Creation across owners and overlapping creations                         *)

\* create handler i, which found no project of its caller, resumes
CreateInserts(i) ==
  /\ i \in DOMAIN handlers
  /\ handlers[i].kind = "create"
  /\ handlers[i].found = NoPid
  /\ Resume(i)

\* C38: a create request of owner A with url_id u succeeds and yields a
\* project owned by A whether or not another owner holds a project with the
\* same url_id: the projects of one caller never change the outcome of
\* another caller's create.
C38_CreateIndependentOfOthers ==
  [][\A i \in 1..MaxPending :
       (CreateInserts(i) /\ OwnRows(handlers[i].caller, handlers[i].target) = {})
         => /\ lastResp'.status = 200
            /\ \E r \in projects' :
                 /\ r.id = lastResp'.project
                 /\ r.clerk_user_id = handlers[i].caller
                 /\ r.url_id = handlers[i].target]_vars

\* C39: of two overlapping create requests of one owner for one url_id,
\* interleaved at the existence check and the insert, the one that resumes
\* second answers the project the first one made, without error, and the
\* owner is left with exactly one project row of that url_id.
C39_OverlappingCreatesAgree ==
  [][\A i \in 1..MaxPending :
       (CreateInserts(i) /\ OwnRows(handlers[i].caller, handlers[i].target) # {})
         => /\ lastResp'.status = 200
            /\ \E r \in OwnRows(handlers[i].caller, handlers[i].target) :
                 lastResp'.project = r.id
            /\ Cardinality({r \in projects' :
                              /\ r.clerk_user_id = handlers[i].caller
                              /\ r.url_id = handlers[i].target}) = 1]_vars

----------------------------------------------------------------------------
(* Restore-then-store round trip                                            *)

\* chat 1 has been restored from its stored log with a rewind target and
\* nothing has been stored since
RestoredWithRewind ==
  /\ restores = <<>>
  /\ ready
  /\ lastDone.id = 1
  /\ lastDone.path = "local"
  /\ lastDone.outcome = "restored"
  /\ lastDone.rewindId # NoMsgId
  /\ chatId = 1
  /\ localDb[1].messages = StoredLog

\* L[0..endingIdx), for the rewind target the restore ran with
RewoundLog == Slice(StoredLog, 0, EndingIdx(StoredLog, lastDone.rewindId))

DistinctIds(messages) ==
  \A i, j \in DOMAIN messages : messages[i].id = messages[j].id => i = j

\* C40 as stated: storeMessageHistory called with the reconciled
\* visibleMessages leaves exactly L[0..endingIdx) in the Local History
\* Store, whatever the snapshot and the rewind target.
C40_RoundTripAlways ==
  RestoredWithRewind
    => /\ StoredBy(initialMessages) = RewoundLog
       /\ DistinctIds(StoredBy(initialMessages))

\* C40: storeMessageHistory called with the reconciled visibleMessages of
\* a log L, when they hold at least one message, writes exactly
\* L[0..endingIdx) to the Local History Store (the archived messages
\* followed by the visible ones without the synthesized no-store messages),
\* with no duplicated message identifier.
C40_RoundTrip ==
  [][\A artifact \in {NoId, ArtifactUrlId} :
       (RestoredWithRewind /\ StoreMessageHistory(artifact, <<>>))
         => /\ localDb'[1].messages = RewoundLog
            /\ localDb'[1].messages = StoredBy(initialMessages)
            /\ DistinctIds(localDb'[1].messages)]_vars

\* the session rewound to message 2 over a snapshot on message 1 has been
\* stored: message 1 was archived, message 2 visible, message 3 is gone
C40_Witness ==
  /\ lastDone.path = "local"
  /\ lastDone.rewindId = 2
  /\ archivedMessages = <<ChatMsg(1, 1)>>
  /\ localDb[1].messages = <<ChatMsg(1, 1), ChatMsg(2, 2)>>
  /\ msgSync.stage = "ensure"

====
